---------------------------- MODULE Spec2Model ----------------------------
(***************************************************************************)
(* Verification model of the reconciliation engine:                        *)
(*   [A] BankRecovery  - V16 global CSP over OCR hypotheses                *)
(*   [B] SafePeel      - time-tiered commit engine                         *)
(*   [C] Cluster       - Leiden communities, splitting, orphans            *)
(*   [D] LexSolver     - three-phase lexicographic MILP                    *)
(*   [E] RescueLoop and the orchestrator's aggregation                     *)
(* All amounts are integer cents, as in the source.                        *)
(***************************************************************************)
EXTENDS Integers, Sequences, FiniteSets, TLC

VARIABLES
    bank_pc,        \* position of the bank-statement run: "idle" | "processed" | "parsed"
    ocr_doc,        \* the OCR document handed to BankRecovery
    bank_out,       \* (transactions, context) returned by V16BankParserEngine.process
    parse_result,   \* ParseResult returned by BankStatementParser.parse_pdf
    peel_pc,        \* position of the SafePeel run: "idle" | "peeled"
    peel_in,        \* (invoices, payments, reference_date) handed to SafePeel
    peel_out,       \* PeelingResult returned by SafePeelingEngine.process
    txn_status,     \* commit_status / matched_to written on the transactions
    promote_calls,  \* number of promote_commits calls made so far
    promote_audit,  \* audit entries returned by the last promote_commits call
    solver_pc,      \* position of the cluster solve: "idle" | "solved"
    solver_cluster, \* the Cluster handed to LexSolver
    solver_result,  \* SolverResult returned by solve_cluster
    solver_statuses, \* prob.status after each phase of that solve ("none": not run)
    pipe_pc,        \* position of ReconciliationOrchestrator.run
    pipe_in,        \* the run's transactions and the grouping the cluster engine gives
    job_status,     \* job.status
    remaining_txns, \* remaining_invoices / remaining_payments after SafePeel
    clustering_result, \* clusters and orphans returned by the cluster engine
    cluster_index,  \* index of the next cluster of the solving loop
    orch_failed_results, \* solver results with needs_rescue
    rescue_result,  \* RescueResult returned by RescueLoopEngine.process
    recon_result,   \* the ReconciliationResult being built
    leiden_pc,      \* position of the clustering run: "idle" | "clustered"
    leiden_in,      \* (invoices, payments, edges) of the affinity graph
    leiden_partitioned, \* the clusters of the first partition, before splitting
    leiden_out      \* ClusteringResult returned by LeidenClusterEngine.process

bankVars == <<bank_pc, ocr_doc, bank_out, parse_result>>

peelVars == <<peel_pc, peel_in, peel_out, txn_status, promote_calls, promote_audit>>

solverVars == <<solver_pc, solver_cluster, solver_result, solver_statuses>>

pipeVars == <<pipe_pc, pipe_in, job_status, remaining_txns, clustering_result,
              cluster_index, orch_failed_results, rescue_result, recon_result>>

leidenVars == <<leiden_pc, leiden_in, leiden_partitioned, leiden_out>>

vars == <<bank_pc, ocr_doc, bank_out, parse_result,
          peel_pc, peel_in, peel_out, txn_status, promote_calls, promote_audit,
          solver_pc, solver_cluster, solver_result, solver_statuses,
          pipe_pc, pipe_in, job_status, remaining_txns, clustering_result,
          cluster_index, orch_failed_results, rescue_result, recon_result,
          leiden_pc, leiden_in, leiden_partitioned, leiden_out>>

-----------------------------------------------------------------------------
(* Generic helpers                                                         *)

Abs(n) == IF n < 0 THEN -n ELSE n

Max2(a, b) == IF a >= b THEN a ELSE b

Min2(a, b) == IF a <= b THEN a ELSE b

RECURSIVE SeqSum(_)
SeqSum(s) == IF s = <<>> THEN 0 ELSE Head(s) + SeqSum(Tail(s))

RECURSIVE Flatten(_)
Flatten(ss) == IF ss = <<>> THEN <<>> ELSE Head(ss) \o Flatten(Tail(ss))

Range(s) == {s[i] : i \in DOMAIN s}

-----------------------------------------------------------------------------
(* [A] BankRecovery: domain                                                *)

\* Optional[int] balances returned by HeaderExtractor._find_balance
NoBalance == [found |-> FALSE, cents |-> 0]

Balance(c) == [found |-> TRUE, cents |-> c]

\* Optional[IsomorphicVariant]: the unset selection of a TransactionBlock
NoVariant == [value_cents |-> 0, transformation_method |-> "none"]

IsomorphicVariant(v, m) == [value_cents |-> v, transformation_method |-> m]

\* Optional[ValidationContext]
NoContext == [present |-> FALSE, start_balance_cents |-> 0, end_balance_cents |-> 0]

ValidationContext(s, e) ==
    [present |-> TRUE, start_balance_cents |-> s, end_balance_cents |-> e]

\* CSPSolver(tolerance_cents=100) as constructed by V16BankParserEngine
tolerance_cents == 100

\* HeaderExtractor.extract_context: both boundaries or nothing
extract_context(doc) ==
    IF doc.start_balance # NoBalance /\ doc.end_balance # NoBalance
    THEN ValidationContext(doc.start_balance.cents, doc.end_balance.cents)
    ELSE NoContext

\* populate_block_content: every money token of the right half of the page
\* contributes its variant list to BOTH the debit and the credit pile.
populate_block_content(raw, id) ==
    LET kept == SelectSeq(raw.tokens, LAMBDA w : w.variants # <<>> /\ w.x_right)
        piles == [i \in 1..Len(kept) |-> kept[i].variants]
    IN  [block_id |-> id,
         debit_candidates |-> piles,
         credit_candidates |-> piles,
         selected_debit |-> NoVariant,
         selected_credit |-> NoVariant]

\* create_transaction_blocks over all pages: one block per date anchor
create_transaction_blocks(doc) ==
    [i \in 1..Len(doc.blocks) |-> populate_block_content(doc.blocks[i], i - 1)]

-----------------------------------------------------------------------------
(* [A] BankRecovery: CSPSolver                                             *)

\* mutant: the credit variants are tried before the debit variants
BlockOptionsCreditFirst(block) ==
    LET deb == Flatten(block.debit_candidates)
        cre == Flatten(block.credit_candidates)
    IN  [i \in 1..Len(cre) |-> [kind |-> "credit", variant |-> cre[i]]]
        \o [i \in 1..Len(deb) |-> [kind |-> "debit", variant |-> deb[i]]]
        \o << [kind |-> "null", variant |-> NoVariant] >>

\* The options the search tries for one block, in the order of the code:
\* every debit variant (group by group), every credit variant, then null.
BlockOptions(block) ==
    LET deb == Flatten(block.debit_candidates)
        cre == Flatten(block.credit_candidates)
    IN  [i \in 1..Len(deb) |-> [kind |-> "debit", variant |-> deb[i]]]
        \o [i \in 1..Len(cre) |-> [kind |-> "credit", variant |-> cre[i]]]
        \o << [kind |-> "null", variant |-> NoVariant] >>

\* mutant: a debit is applied with the sign of a credit
OptionDeltaUnsigned(o) ==
    IF o.kind = "null" THEN 0 ELSE o.variant.value_cents

\* new_delta - current_delta for one option (-value, +value, 0)
OptionDelta(o) ==
    CASE o.kind = "debit"  -> -o.variant.value_cents
      [] o.kind = "credit" -> o.variant.value_cents
      [] OTHER             -> 0

\* mutant: the smallest |value| of the block taken as its largest change
BlockMaxSmallest(block) ==
    LET vs == {Abs(v.value_cents) :
                 v \in Range(Flatten(block.debit_candidates))
                       \cup Range(Flatten(block.credit_candidates))}
    IN  IF vs = {} THEN 0 ELSE CHOOSE m \in vs : \A n \in vs : m <= n

\* block_max of CSPSolver.solve: the largest |value| over both piles
BlockMax(block) ==
    LET vs == {Abs(v.value_cents) :
                 v \in Range(Flatten(block.debit_candidates))
                       \cup Range(Flatten(block.credit_candidates))}
    IN  IF vs = {} THEN 0 ELSE CHOOSE m \in vs : \A n \in vs : n <= m

\* max_remaining_changes[i] (1-based; entry Len+1 is 0)
RECURSIVE MaxRemainingFrom(_, _)
MaxRemainingFrom(blocks, i) ==
    IF i > Len(blocks) THEN 0
    ELSE BlockMax(blocks[i]) + MaxRemainingFrom(blocks, i + 1)

max_remaining_changes(blocks) ==
    [i \in 1..(Len(blocks) + 1) |-> MaxRemainingFrom(blocks, i)]

\* the selection an option leaves on its block
ApplyOption(block, o) ==
    [block EXCEPT !.selected_debit  = IF o.kind = "debit" THEN o.variant ELSE NoVariant,
                  !.selected_credit = IF o.kind = "credit" THEN o.variant ELSE NoVariant]

\* CSPSolver._recursive_solve: depth-first, first feasible assignment.
\* Returns [ok, blocks]: blocks index..Len carry their selections iff ok.
RECURSIVE _recursive_solve(_, _, _, _, _)
RECURSIVE TryOptions(_, _, _, _, _, _, _)
_recursive_solve(blocks, index, current_delta, target_delta, maxrem) ==
    IF index = Len(blocks) + 1
    THEN [ok |-> Abs(current_delta - target_delta) <= tolerance_cents, blocks |-> blocks]
    ELSE IF Abs(target_delta - current_delta) > maxrem[index] + tolerance_cents
    THEN [ok |-> FALSE, blocks |-> blocks]
    ELSE TryOptions(blocks, index, current_delta, target_delta, maxrem,
                    BlockOptions(blocks[index]), 1)

TryOptions(blocks, index, current_delta, target_delta, maxrem, opts, k) ==
    IF k > Len(opts) THEN [ok |-> FALSE, blocks |-> blocks]
    ELSE LET sub == _recursive_solve(blocks, index + 1,
                                     current_delta + OptionDelta(opts[k]),
                                     target_delta, maxrem)
         IN  IF sub.ok
             THEN [ok |-> TRUE,
                   blocks |-> [sub.blocks EXCEPT ![index] = ApplyOption(@, opts[k])]]
             ELSE TryOptions(blocks, index, current_delta, target_delta, maxrem,
                             opts, k + 1)

\* CSPSolver.solve
solve(context, blocks) ==
    _recursive_solve(blocks, 1, 0,
                     context.end_balance_cents - context.start_balance_cents,
                     max_remaining_changes(blocks))

-----------------------------------------------------------------------------
(* [A] BankRecovery: emission and entry points                             *)

\* mutant: the constructor's placeholder balance_before (0) is never fixed
BalanceBeforePlaceholder(txn_type, after, amt) == 0

\* "Fix balance before": rebuilt from balance_after and the amount
BalanceBefore(txn_type, after, amt) ==
    IF txn_type = "DEBIT" THEN after + amt ELSE after - amt

\* one emitted BankTransaction
BankTransaction(block, txn_type, amt, after) ==
    [source_row |-> block.block_id,
     amount_cents |-> amt,
     transaction_type |-> txn_type,
     balance_before_cents |-> BalanceBefore(txn_type, after, amt),
     balance_after_cents |-> after]

\* V16BankParserEngine._blocks_to_transactions from block i on, with the
\* running balance current_balance
RECURSIVE BlocksToTransactionsFrom(_, _, _)
BlocksToTransactionsFrom(blocks, i, current_balance) ==
    IF i > Len(blocks) THEN <<>>
    ELSE LET b == blocks[i] IN
         IF b.selected_debit = NoVariant /\ b.selected_credit = NoVariant
         THEN BlocksToTransactionsFrom(blocks, i + 1, current_balance)
         ELSE IF b.selected_debit # NoVariant
         THEN LET amt == b.selected_debit.value_cents
                  after == current_balance - amt
              IN  << BankTransaction(b, "DEBIT", amt, after) >>
                  \o BlocksToTransactionsFrom(blocks, i + 1, after)
         ELSE LET amt == b.selected_credit.value_cents
                  after == current_balance + amt
              IN  << BankTransaction(b, "CREDIT", amt, after) >>
                  \o BlocksToTransactionsFrom(blocks, i + 1, after)

_blocks_to_transactions(blocks, start_balance) ==
    BlocksToTransactionsFrom(blocks, 1, start_balance)

\* mutant: when the CSP fails, fall back to a greedy reading (every block's
\* first candidate taken as a debit) instead of returning nothing
processWithGreedyFallback(doc) ==
    LET context == extract_context(doc)
        all_blocks == create_transaction_blocks(doc)
        greedy == [i \in 1..Len(all_blocks) |->
                     IF Flatten(all_blocks[i].debit_candidates) = <<>> THEN all_blocks[i]
                     ELSE [all_blocks[i] EXCEPT !.selected_debit =
                              Flatten(all_blocks[i].debit_candidates)[1]]]
    IN  IF ~context.present THEN [transactions |-> <<>>, context |-> NoContext]
        ELSE IF all_blocks = <<>> THEN [transactions |-> <<>>, context |-> context]
        ELSE LET solved == solve(context, all_blocks)
             IN  [transactions |->
                      _blocks_to_transactions(IF solved.ok THEN solved.blocks ELSE greedy,
                                              context.start_balance_cents),
                  context |-> context]

\* V16BankParserEngine.process
process(doc) ==
    LET context == extract_context(doc)
        all_blocks == create_transaction_blocks(doc)
    IN  IF ~context.present THEN [transactions |-> <<>>, context |-> NoContext]
        ELSE IF all_blocks = <<>> THEN [transactions |-> <<>>, context |-> context]
        ELSE LET solved == solve(context, all_blocks)
             IN  IF ~solved.ok THEN [transactions |-> <<>>, context |-> context]
                 ELSE [transactions |->
                           _blocks_to_transactions(solved.blocks,
                                                   context.start_balance_cents),
                       context |-> context]

\* BankStatementParser.parse_pdf after OCR: ocr is "ok", "timeout" or "error"
parse_pdf(doc, ocr) ==
    IF ocr # "ok"
    THEN [transactions |-> <<>>, is_valid |-> FALSE,
          errors |-> << IF ocr = "timeout" THEN "OCR timed out" ELSE "OCR failed" >>,
          warnings |-> <<>>]
    ELSE LET r == process(doc)
         IN  IF r.transactions # <<>>
             THEN [transactions |-> r.transactions, is_valid |-> TRUE,
                   errors |-> <<>>, warnings |-> <<>>]
             ELSE [transactions |-> <<>>, is_valid |-> FALSE,
                   errors |-> << "V16 Solver Failed" >>,
                   warnings |-> << "V16 Solver found no solution or boundary conditions" >>]

-----------------------------------------------------------------------------
(* [A] BankRecovery: inputs, state machine                                 *)

\* largest number of date-anchored blocks in a document
MaxBlocks == 3

StartBalances == {100000}

BankValues == {50, 5000, 10000, 15000}

EndBalances == {80000, 90000, 100000, 100050, 115000}

StdToken(v) == [variants |-> << IsomorphicVariant(v, "standard") >>, x_right |-> TRUE]

\* what one dated block can hold: nothing numeric, one amount token, a token
\* with a standard and an ocr_fix reading, or a number in the description column
RawBlocks ==
    { [tokens |-> <<>>] }
    \cup { [tokens |-> << StdToken(v) >>] : v \in BankValues }
    \cup { [tokens |-> << [variants |-> << IsomorphicVariant(5000, "standard"),
                                            IsomorphicVariant(15000, "ocr_fix") >>,
                           x_right |-> TRUE] >>],
           [tokens |-> << [variants |-> << IsomorphicVariant(10000, "standard") >>,
                           x_right |-> FALSE] >>] }

RawBlockSeqs == UNION { [1..n -> RawBlocks] : n \in 0..MaxBlocks }

Boundaries ==
    { <<NoBalance, Balance(80000)>> }
    \cup { <<Balance(s), NoBalance>> : s \in StartBalances }
    \cup { <<Balance(s), Balance(e)>> : s \in StartBalances, e \in EndBalances }

BankDocs ==
    { [start_balance |-> b[1], end_balance |-> b[2], blocks |-> bs] :
        b \in Boundaries, bs \in RawBlockSeqs }

NoBankOut == [transactions |-> <<>>, context |-> NoContext]

NoParseResult ==
    [transactions |-> <<>>, is_valid |-> FALSE, errors |-> <<>>, warnings |-> <<>>]

BankInit ==
    /\ bank_pc = "idle"
    /\ ocr_doc \in BankDocs
    /\ bank_out = NoBankOut
    /\ parse_result = NoParseResult

\* a direct call of V16BankParserEngine.process
V16Process ==
    /\ bank_pc = "idle"
    /\ bank_out' = process(ocr_doc)
    /\ bank_pc' = "processed"
    /\ UNCHANGED <<ocr_doc, parse_result>>
    /\ UNCHANGED <<peelVars, solverVars, pipeVars, leidenVars>>

\* BankStatementParser.parse_pdf: OCR, then the V16 engine
ParsePdf ==
    /\ bank_pc = "idle"
    /\ \E ocr \in {"ok", "timeout", "error"} :
          /\ parse_result' = parse_pdf(ocr_doc, ocr)
          /\ bank_out' = IF ocr = "ok" THEN process(ocr_doc) ELSE bank_out
    /\ bank_pc' = "parsed"
    /\ UNCHANGED ocr_doc
    /\ UNCHANGED <<peelVars, solverVars, pipeVars, leidenVars>>

BankNext == V16Process \/ ParsePdf

-----------------------------------------------------------------------------
(* [A] BankRecovery: properties                                            *)

\* every assignment of one option (a debit variant, a credit variant or
\* null) to each block from block i on, as a sequence of options
RECURSIVE Assignments(_, _)
Assignments(blocks, i) ==
    IF i > Len(blocks) THEN { <<>> }
    ELSE { <<o>> \o rest : o \in Range(BlockOptions(blocks[i])),
                           rest \in Assignments(blocks, i + 1) }

SignedDeltas(f) == [i \in 1..Len(f) |-> OptionDelta(f[i])]

NullCount(f) == Cardinality({i \in 1..Len(f) : f[i].kind = "null"})

\* the assignments that satisfy the global balance equation within tolerance
FeasibleAssignments(doc) ==
    LET ctx == extract_context(doc)
        blocks == create_transaction_blocks(doc)
    IN  IF ~ctx.present THEN {}
        ELSE { f \in Assignments(blocks, 1) :
                 Abs(ctx.start_balance_cents + SeqSum(SignedDeltas(f))
                     - ctx.end_balance_cents) <= tolerance_cents }

\* the signed delta of an emitted payment
TxnDelta(t) == IF t.transaction_type = "CREDIT" THEN t.amount_cents ELSE -t.amount_cents

EmittedDeltas(txns) == [i \in 1..Len(txns) |-> TxnDelta(txns[i])]

RecurrenceHolds(txns, start) ==
    \A i \in 1..Len(txns) :
        /\ txns[i].balance_after_cents = txns[i].balance_before_cents + TxnDelta(txns[i])
        /\ txns[i].balance_before_cents =
               IF i = 1 THEN start ELSE txns[i - 1].balance_after_cents

\* C5: every emitted payment satisfies the balance recurrence (after = before
\* + amount for a CREDIT, before - amount for a DEBIT), the first one starts
\* at the extracted start balance and each later one at its predecessor's
\* balance_after.
C5_BalanceRecurrence ==
    /\ RecurrenceHolds(bank_out.transactions, bank_out.context.start_balance_cents)
    /\ RecurrenceHolds(parse_result.transactions, bank_out.context.start_balance_cents)

C5_Witness ==
    /\ bank_pc = "parsed"
    /\ Len(parse_result.transactions) >= 3
    /\ \E i, j \in 1..Len(parse_result.transactions) :
          /\ parse_result.transactions[i].transaction_type = "CREDIT"
          /\ parse_result.transactions[j].transaction_type = "DEBIT"

\* C6: a non-empty result satisfies the global balance equation: start +
\* credits - debits is within tolerance_cents of the end balance.
C6_GlobalBalance ==
    bank_out.transactions # <<>> =>
        Abs(bank_out.context.start_balance_cents
            + SeqSum(EmittedDeltas(bank_out.transactions))
            - bank_out.context.end_balance_cents) <= tolerance_cents

C6_Witness ==
    /\ bank_pc = "processed"
    /\ Len(bank_out.transactions) >= 2
    /\ bank_out.context.start_balance_cents
         + SeqSum(EmittedDeltas(bank_out.transactions))
         # bank_out.context.end_balance_cents

\* the document of the OCR-recovery scenario: start 100000, end 80000 and
\* three blocks reading 15000, 5000, 10000
ScenarioDoc ==
    [start_balance |-> Balance(100000), end_balance |-> Balance(80000),
     blocks |-> << [tokens |-> << StdToken(15000) >>],
                   [tokens |-> << StdToken(5000) >>],
                   [tokens |-> << StdToken(10000) >>] >>]

\* C7 (as claimed): the solve returns a feasible assignment with the fewest
\* null blocks, and the scenario document yields three payments.
C7_MinimumNulls ==
    bank_pc = "processed" =>
        /\ \A f \in FeasibleAssignments(ocr_doc) :
              Len(ocr_doc.blocks) - Len(bank_out.transactions) <= NullCount(f)
        /\ ocr_doc = ScenarioDoc => Len(bank_out.transactions) = 3

\* the statements a document may have been built from: a signed delta per
\* block, each a candidate of its block, that leads from start to end exactly
Truths(doc) ==
    { f \in FeasibleAssignments(doc) :
        /\ NullCount(f) = 0
        /\ doc.start_balance.cents + SeqSum(SignedDeltas(f)) = doc.end_balance.cents }

\* C8 (as claimed): the emitted signed deltas are exactly the true ones.
C8_RoundTripExact ==
    bank_pc = "processed" =>
        \A f \in Truths(ocr_doc) :
            EmittedDeltas(bank_out.transactions) = SignedDeltas(f)

\* the true statement is the first leaf of the search: every block a debit
\* of its first candidate
IsFirstLeaf(doc, f) ==
    LET blocks == create_transaction_blocks(doc)
    IN  \A i \in 1..Len(f) :
            /\ f[i].kind = "debit"
            /\ f[i].variant = Flatten(blocks[i].debit_candidates)[1]

\* C8 (amended): for a statement with at least one block, the result is
\* non-empty, in block order, each amount a candidate of its block, and its
\* signed sum is within tolerance of the true net delta; the exact sequence is
\* recovered when the true statement is all debits of first candidates.
C8_RoundTripNet ==
    (bank_pc = "processed" /\ ocr_doc.blocks # <<>>) =>
        \A f \in Truths(ocr_doc) :
            LET txns == bank_out.transactions
                blocks == create_transaction_blocks(ocr_doc)
            IN  /\ txns # <<>>
                /\ Abs(SeqSum(EmittedDeltas(txns)) - SeqSum(SignedDeltas(f)))
                       <= tolerance_cents
                /\ \A i \in 1..Len(txns) :
                      /\ i > 1 => txns[i - 1].source_row < txns[i].source_row
                      /\ \E v \in Range(Flatten(
                                 blocks[txns[i].source_row + 1].debit_candidates)) :
                            v.value_cents = txns[i].amount_cents
                /\ IsFirstLeaf(ocr_doc, f) => EmittedDeltas(txns) = SignedDeltas(f)

C8_Witness ==
    /\ bank_pc = "processed"
    /\ Len(ocr_doc.blocks) >= 2
    /\ \E f \in Truths(ocr_doc) :
          /\ IsFirstLeaf(ocr_doc, f)
          /\ EmittedDeltas(bank_out.transactions) = SignedDeltas(f)
          /\ \E i \in 1..Len(f) : Len(BlockOptions(
                 create_transaction_blocks(ocr_doc)[i])) > 3

\* BankRecovery's three failures: a boundary is missing, no block is
\* anchored, or no assignment balances within tolerance
BankFailure(doc) ==
    \/ doc.start_balance = NoBalance
    \/ doc.end_balance = NoBalance
    \/ doc.blocks = <<>>
    \/ FeasibleAssignments(doc) = {}

\* C9: on failure the engine returns no payment at all, and parse_pdf returns
\* an empty list together with an error.
C9_NoPartialResult ==
    (bank_pc # "idle" /\ BankFailure(ocr_doc)) =>
        /\ bank_out.transactions = <<>>
        /\ bank_pc = "parsed" =>
              /\ parse_result.transactions = <<>>
              /\ parse_result.errors # <<>>
              /\ ~parse_result.is_valid

C9_Witness ==
    /\ bank_pc = "parsed"
    /\ extract_context(ocr_doc).present
    /\ Len(ocr_doc.blocks) >= 2
    /\ \A i \in 1..Len(ocr_doc.blocks) :
          create_transaction_blocks(ocr_doc)[i].debit_candidates # <<>>
    /\ FeasibleAssignments(ocr_doc) = {}
    /\ parse_result.errors = << "V16 Solver Failed" >>


\* the depth-first search without the bound: the first option of block index
\* that has a feasible completion, and below it the same
RECURSIVE UnprunedSolve(_, _, _, _)
UnprunedSolve(blocks, index, current_delta, target_delta) ==
    IF index = Len(blocks) + 1
    THEN [ok |-> Abs(current_delta - target_delta) <= tolerance_cents, blocks |-> blocks]
    ELSE LET opts == BlockOptions(blocks[index])
             below(k) == UnprunedSolve(blocks, index + 1,
                                       current_delta + OptionDelta(opts[k]), target_delta)
             good == { k \in DOMAIN opts : below(k).ok }
         IN  IF good = {} THEN [ok |-> FALSE, blocks |-> blocks]
             ELSE LET k == CHOOSE g \in good : \A h \in good : g <= h
                  IN  [ok |-> TRUE,
                       blocks |-> [below(k).blocks EXCEPT ![index] = ApplyOption(@, opts[k])]]

\* the bound cuts the node reached by the options f for blocks 1..Len(f)
IsCut(blocks, target_delta, f) ==
    Abs(target_delta - SeqSum(SignedDeltas(f)))
        > max_remaining_changes(blocks)[Len(f) + 1] + tolerance_cents

\* C26: the search with the max_remaining_changes bound returns what the
\* search without it returns: False exactly when no assignment is within
\* tolerance, and otherwise the first feasible assignment in the order debit
\* variants, credit variants, null; no feasible assignment lies below a node
\* the bound cuts.
C26_PruningEquivalent ==
    (bank_pc = "processed" /\ extract_context(ocr_doc).present) =>
        LET context == extract_context(ocr_doc)
            blocks == create_transaction_blocks(ocr_doc)
            target_delta == context.end_balance_cents - context.start_balance_cents
            solved == solve(context, blocks)
        IN  /\ solved = UnprunedSolve(blocks, 1, 0, target_delta)
            /\ solved.ok <=> FeasibleAssignments(ocr_doc) # {}
            /\ \A f \in FeasibleAssignments(ocr_doc), n \in 0..Len(blocks) :
                  ~IsCut(blocks, target_delta, SubSeq(f, 1, n))

\* a solved document in whose search the bound cut the node below the first
\* option of the first block
C26_Witness ==
    /\ bank_pc = "processed"
    /\ bank_out.transactions # <<>>
    /\ LET context == extract_context(ocr_doc)
           blocks == create_transaction_blocks(ocr_doc)
           target_delta == context.end_balance_cents - context.start_balance_cents
       IN  /\ Len(blocks) >= 2
           /\ IsCut(blocks, target_delta, << BlockOptions(blocks[1])[1] >>)
           /\ solve(context, blocks).ok

-----------------------------------------------------------------------------
(* [B] SafePeel: domain                                                    *)

\* Optional[date]; days are counted from an arbitrary origin
NoDate == [known |-> FALSE, day |-> 0]

Day(d) == [known |-> TRUE, day |-> d]

\* Settings defaults read by SafePeelingEngine.__init__
buffer_days == 5

hard_threshold == 0 - 2

uniqueness_window == 2

\* text_similarity_threshold 0.7, in percent
text_threshold == 70

\* similarity as the exact fraction num / (100 * den)
Similarity(n, d) == [num |-> n, den |-> d]

\* str.lower() on the references of the model
lower(s) ==
    CASE s = "R1" -> "r1"
      [] s = "R2" -> "r2"
      [] OTHER    -> s

\* str.upper() on the RFCs of the model
upper(s) ==
    CASE s = "aaa010101" -> "AAA010101"
      [] s = "bbb020202" -> "BBB020202"
      [] OTHER           -> s

\* rapidfuzz token ratios (percent) on the lower-cased one-token texts of the
\* model: the normalised indel similarity 100 * 2 * lcs / (len(a) + len(b)),
\* which is 0 for the remaining pairs, as they share no letter
token_ratio(a, b) ==
    CASE a = b                                       -> 100
      [] {a, b} = {"bdfghijkln", "bdfghijopq"}       -> 70
      [] {a, b} = {"acme", "zeta"}                   -> 25
      [] OTHER                                       -> 0

MatchedPair(inv_ids, pay_ids, inv_total, pay_total, gap, score, conf, status, by) ==
    [kind |-> "MatchedPair",
     invoice_ids |-> inv_ids,
     payment_ids |-> pay_ids,
     total_invoice_cents |-> inv_total,
     total_payment_cents |-> pay_total,
     gap_cents |-> gap,
     semantic_score |-> score,
     confidence |-> conf,
     commit_status |-> status,
     matched_by |-> by]

\* Optional[CandidateMatch]
NoMatch ==
    [found |-> FALSE, payment_pos |-> 0, reference_match |-> FALSE,
     text_similarity |-> Similarity(0, 1), is_unique_amount |-> FALSE]

CandidateMatch(pos, is_ref, sim, unique) ==
    [found |-> TRUE, payment_pos |-> pos, reference_match |-> is_ref,
     text_similarity |-> sim, is_unique_amount |-> unique]

-----------------------------------------------------------------------------
(* [B] SafePeel: indices                                                   *)

\* _build_reference_index: a dict keyed by lower-cased external_id and
\* reference; a later payment with the same key overwrites an earlier one.
\* The value is the position of the payment in the list (0: key absent).
RECURSIVE ReferenceIndexFrom(_, _, _)
ReferenceIndexFrom(payments, j, index) ==
    IF j > Len(payments) THEN index
    ELSE LET txn == payments[j]
             i1 == IF txn.external_id # ""
                   THEN [index EXCEPT ![lower(txn.external_id)] = j] ELSE index
             i2 == IF txn.reference # ""
                   THEN [i1 EXCEPT ![lower(txn.reference)] = j] ELSE i1
         IN  ReferenceIndexFrom(payments, j + 1, i2)

RefKeys(payments) ==
    {lower(payments[j].external_id) : j \in DOMAIN payments}
        \cup {lower(payments[j].reference) : j \in DOMAIN payments}
        \cup {"r1", "r2"}

_build_reference_index(payments) ==
    ReferenceIndexFrom(payments, 1, [k \in RefKeys(payments) |-> 0])

\* _build_amount_index: positions of the payments of one amount, in order
_build_amount_index(payments, amount) ==
    SelectSeq([j \in 1..Len(payments) |-> j],
              LAMBDA j : payments[j].amount_cents = amount)

\* an amount seen three times or more counted as seen twice
_count_amounts_capped(transactions, reference_date, amount) ==
    LET window_start == reference_date - uniqueness_window
        window_end == reference_date + buffer_days + uniqueness_window
    IN  Min2(2, Cardinality({ i \in DOMAIN transactions :
            /\ transactions[i].transaction_date.known
            /\ window_start <= transactions[i].transaction_date.day
            /\ transactions[i].transaction_date.day <= window_end
            /\ transactions[i].amount_cents = amount }))

\* _count_amounts_in_window: occurrences of an amount among the dated
\* transactions of [T - window, T + buffer + window]
_count_amounts_in_window(transactions, reference_date, amount) ==
    LET window_start == reference_date - uniqueness_window
        window_end == reference_date + buffer_days + uniqueness_window
    IN  Cardinality({ i \in DOMAIN transactions :
            /\ transactions[i].transaction_date.known
            /\ window_start <= transactions[i].transaction_date.day
            /\ transactions[i].transaction_date.day <= window_end
            /\ transactions[i].amount_cents = amount })

-----------------------------------------------------------------------------
(* [B] SafePeel: matching                                                  *)

\* the lower-cased keys an invoice is looked up by, external_id first
refs_to_try(invoice) ==
    (IF invoice.external_id # "" THEN << lower(invoice.external_id) >> ELSE <<>>)
        \o (IF invoice.reference # "" THEN << lower(invoice.reference) >> ELSE <<>>)

RECURSIVE TryRefsFrom(_, _, _, _, _, _)
TryRefsFrom(invoice, refs, k, payments, payment_index, matched_ids) ==
    IF k > Len(refs) THEN NoMatch
    ELSE LET ref == refs[k]
             pos == IF ref \in DOMAIN payment_index THEN payment_index[ref] ELSE 0
         IN  IF /\ pos # 0
                /\ payments[pos].id \notin matched_ids
                /\ payments[pos].amount_cents = invoice.amount_cents
             THEN CandidateMatch(pos, TRUE, Similarity(100, 1), FALSE)
             ELSE TryRefsFrom(invoice, refs, k + 1, payments, payment_index, matched_ids)

\* mutant: the payments already matched are not excluded
_try_reference_match_reusing(invoice, payments, payment_index, matched_ids) ==
    TryRefsFrom(invoice, refs_to_try(invoice), 1, payments, payment_index, {})

\* _try_reference_match
_try_reference_match(invoice, payments, payment_index, matched_ids) ==
    TryRefsFrom(invoice, refs_to_try(invoice), 1, payments, payment_index, matched_ids)

\* _calculate_text_similarity: mean of the scores of the fields both sides carry
_calculate_text_similarity(invoice, payment) ==
    LET names == IF invoice.counterparty_name # "" /\ payment.counterparty_name # ""
                 THEN << token_ratio(invoice.counterparty_name, payment.counterparty_name) >>
                 ELSE <<>>
        descs == IF invoice.description # "" /\ payment.description # ""
                 THEN << token_ratio(invoice.description, payment.description) >>
                 ELSE <<>>
        rfcs  == IF invoice.counterparty_rfc # "" /\ payment.counterparty_rfc # ""
                 THEN << IF upper(invoice.counterparty_rfc) = upper(payment.counterparty_rfc)
                         THEN 100 ELSE 0 >>
                 ELSE <<>>
        scores == names \o descs \o rfcs
    IN  IF scores = <<>> THEN Similarity(0, 1)
        ELSE Similarity(SeqSum(scores), Len(scores))

\* a unique-amount match accepted without the orthogonal text validation
SimilarityBelowSkipped(sim, pct) == FALSE

\* text_sim < threshold, on exact fractions
SimilarityBelow(sim, pct) == sim.num < pct * sim.den

\* _try_unique_amount_match
_try_unique_amount_match(invoice, invoices, payments, matched_ids, reference_date) ==
    LET amount == invoice.amount_cents
        candidates == SelectSeq(_build_amount_index(payments, amount),
                                LAMBDA j : payments[j].id \notin matched_ids)
    IN  IF _count_amounts_in_window(invoices \o payments, reference_date, amount) # 2
        THEN NoMatch
        ELSE IF Len(candidates) # 1 THEN NoMatch
        ELSE LET text_sim == _calculate_text_similarity(invoice, payments[candidates[1]])
             IN  IF SimilarityBelow(text_sim, text_threshold) THEN NoMatch
                 ELSE CandidateMatch(candidates[1], FALSE, text_sim, TRUE)

\* the commit level taken from the earliest date of the pair
_determine_commit_status_earliest(invoice, payment, reference_date) ==
    LET hard_cutoff == reference_date + hard_threshold
        dates == (IF invoice.transaction_date.known
                  THEN {invoice.transaction_date.day} ELSE {})
                 \cup (IF payment.transaction_date.known
                       THEN {payment.transaction_date.day} ELSE {})
    IN  IF dates = {} THEN "SOFT"
        ELSE LET earliest_date == CHOOSE d \in dates : \A e \in dates : d <= e
             IN  IF earliest_date > reference_date THEN "SHADOW"
                 ELSE IF earliest_date > hard_cutoff THEN "SOFT"
                 ELSE "HARD"

\* _determine_commit_status
_determine_commit_status(invoice, payment, reference_date) ==
    LET hard_cutoff == reference_date + hard_threshold
        dates == (IF invoice.transaction_date.known
                  THEN {invoice.transaction_date.day} ELSE {})
                 \cup (IF payment.transaction_date.known
                       THEN {payment.transaction_date.day} ELSE {})
    IN  IF dates = {} THEN "SOFT"
        ELSE LET latest_date == CHOOSE d \in dates : \A e \in dates : e <= d
             IN  IF latest_date > reference_date THEN "SHADOW"
                 ELSE IF latest_date > hard_cutoff THEN "SOFT"
                 ELSE "HARD"

PendingStatus == [commit_status |-> "PENDING", matched_to |-> "none"]

\* the loop of SafePeelingEngine.process over the invoices, in list order
RECURSIVE PeelFrom(_, _, _, _, _)
PeelFrom(invoices, payments, reference_date, i, acc) ==
    IF i > Len(invoices) THEN acc
    ELSE LET invoice == invoices[i]
             payment_index == _build_reference_index(payments)
             byref == _try_reference_match(invoice, payments, payment_index,
                                           acc.matched_payment_ids)
             match == IF byref.found THEN byref
                      ELSE _try_unique_amount_match(invoice, invoices, payments,
                                                    acc.matched_payment_ids, reference_date)
         IN  IF invoice.id \in acc.matched_invoice_ids \/ ~match.found
             THEN PeelFrom(invoices, payments, reference_date, i + 1, acc)
             ELSE LET payment == payments[match.payment_pos]
                      commit_status == _determine_commit_status(invoice, payment, reference_date)
                      pair == MatchedPair(<< invoice.id >>, << payment.id >>,
                                  invoice.amount_cents, payment.amount_cents,
                                  invoice.amount_cents - payment.amount_cents,
                                  match.text_similarity,
                                  IF match.reference_match THEN "HIGH" ELSE "MEDIUM",
                                  commit_status, "safe_peeling")
                  IN  PeelFrom(invoices, payments, reference_date, i + 1,
                        [matched_pairs |-> Append(acc.matched_pairs, pair),
                         matched_invoice_ids |-> acc.matched_invoice_ids \cup {invoice.id},
                         matched_payment_ids |-> acc.matched_payment_ids \cup {payment.id},
                         status |-> [acc.status EXCEPT
                            ![invoice.id] = [commit_status |-> commit_status,
                                             matched_to |-> payment.id],
                            ![payment.id] = [commit_status |-> commit_status,
                                             matched_to |-> invoice.id]],
                         audit_entries |-> Append(acc.audit_entries,
                            [action |-> "SAFE_PEEL_MATCH",
                             transaction_ids |-> << invoice.id, payment.id >>,
                             reference_match |-> match.reference_match,
                             is_unique_amount |-> match.is_unique_amount])])

\* SafePeelingEngine.process
peel_process(invoices, payments, reference_date) ==
    LET ids == {invoices[i].id : i \in DOMAIN invoices}
                   \cup {payments[j].id : j \in DOMAIN payments}
        done == PeelFrom(invoices, payments, reference_date, 1,
                    [matched_pairs |-> <<>>,
                     matched_invoice_ids |-> {}, matched_payment_ids |-> {},
                     status |-> [t \in ids |-> PendingStatus],
                     audit_entries |-> <<>>])
    IN  [matched_pairs |-> done.matched_pairs,
         remaining_invoices |->
            SelectSeq(invoices, LAMBDA inv : inv.id \notin done.matched_invoice_ids),
         remaining_payments |->
            SelectSeq(payments, LAMBDA pay : pay.id \notin done.matched_payment_ids),
         audit_entries |-> done.audit_entries,
         status |-> done.status]

-----------------------------------------------------------------------------
(* [B] SafePeel: inputs and state machine                                  *)

MaxTxns == 2

Transaction(id, ext, ref, amount, date, name, rfc) ==
    [id |-> id, external_id |-> ext, reference |-> ref, amount_cents |-> amount,
     transaction_date |-> date, counterparty_name |-> name,
     counterparty_rfc |-> rfc, description |-> "", metodo_pago |-> "PUE"]

\* the transactions a run is fed with, before their ids are given
TxnProfiles ==
    { Transaction(<<>>, "",   "r1", 1000, Day(0),     "acme",       ""),
      Transaction(<<>>, "",   "r1", 2000, Day(0),     "acme",       ""),
      Transaction(<<>>, "R1", "",   1000, Day(1),     "zeta",       ""),
      Transaction(<<>>, "",   "",   1000, Day(0),     "acme",       "AAA010101"),
      Transaction(<<>>, "",   "",   1000, Day(0 - 2), "bdfghijkln", ""),
      Transaction(<<>>, "",   "r3", 2000, NoDate,     "acme",       ""),
      Transaction(<<>>, "",   "r2", 1000, Day(0),     "zeta",       "aaa010101"),
      Transaction(<<>>, "",   "",   1000, Day(0),     "bdfghijopq", "") }

InvoiceId(i) == << "inv", i >>

PaymentId(j) == << "pay", j >>

TxnLists(Id(_)) ==
    UNION { { [k \in 1..n |-> [f[k] EXCEPT !.id = Id(k)]] : f \in [1..n -> TxnProfiles] }
            : n \in 1..MaxTxns }

ReferenceDates == {0}

PeelInputs ==
    { [invoices |-> is, payments |-> ps, reference_date |-> t] :
        is \in TxnLists(InvoiceId), ps \in TxnLists(PaymentId), t \in ReferenceDates }

NoPeelInput == [invoices |-> <<>>, payments |-> <<>>, reference_date |-> 0]

NoPeelingResult ==
    [matched_pairs |-> <<>>, remaining_invoices |-> <<>>,
     remaining_payments |-> <<>>, audit_entries |-> <<>>]

PeelOff ==
    /\ peel_pc = "off"
    /\ peel_in = NoPeelInput
    /\ peel_out = NoPeelingResult
    /\ txn_status = << >>
    /\ promote_calls = 0
    /\ promote_audit = << >>

PeelInit ==
    /\ peel_pc = "idle"
    /\ peel_in \in PeelInputs
    /\ peel_out = NoPeelingResult
    /\ txn_status = << >>
    /\ promote_calls = 0
    /\ promote_audit = << >>

\* SafePeelingEngine.process on the run's invoices and payments
SafePeelProcess ==
    /\ peel_pc = "idle"
    /\ LET r == peel_process(peel_in.invoices, peel_in.payments, peel_in.reference_date)
       IN  /\ peel_out' = [matched_pairs |-> r.matched_pairs,
                           remaining_invoices |-> r.remaining_invoices,
                           remaining_payments |-> r.remaining_payments,
                           audit_entries |-> r.audit_entries]
           /\ txn_status' = r.status
    /\ peel_pc' = "peeled"
    /\ UNCHANGED <<peel_in, promote_calls, promote_audit>>
    /\ UNCHANGED <<bankVars, solverVars, pipeVars, leidenVars>>

PeelNext == SafePeelProcess

BankOff ==
    /\ bank_pc = "off"
    /\ ocr_doc = [start_balance |-> NoBalance, end_balance |-> NoBalance, blocks |-> <<>>]
    /\ bank_out = NoBankOut
    /\ parse_result = NoParseResult

-----------------------------------------------------------------------------
(* [B] SafePeel: commit promotion and repeated runs                        *)

\* bound on the number of promote_commits calls
MaxPromotes == 2

\* a promotion that takes a SHADOW transaction straight to HARD
PromotedLevelSkipping(txn, commit_status, new_reference_date) ==
    LET hard_cutoff == new_reference_date + hard_threshold
    IN  IF commit_status = "PENDING" THEN commit_status
        ELSE IF ~txn.transaction_date.known THEN commit_status
        ELSE IF txn.transaction_date.day <= hard_cutoff THEN "HARD"
        ELSE IF commit_status = "SHADOW" /\ txn.transaction_date.day <= new_reference_date
             THEN "SOFT"
        ELSE commit_status

\* promote_commits on one transaction: its commit_status after the call
PromotedLevel(txn, commit_status, new_reference_date) ==
    LET hard_cutoff == new_reference_date + hard_threshold
    IN  IF commit_status = "PENDING" THEN commit_status
        ELSE IF ~txn.transaction_date.known THEN commit_status
        ELSE IF commit_status = "SHADOW"
             THEN (IF txn.transaction_date.day <= new_reference_date
                   THEN "SOFT" ELSE commit_status)
        ELSE IF commit_status = "SOFT"
             THEN (IF txn.transaction_date.day <= hard_cutoff
                   THEN "HARD" ELSE commit_status)
        ELSE commit_status

\* promote_commits: the statuses after the call and the audit entries returned
promote_commits(transactions, status, new_reference_date) ==
    LET passed == { transactions[k].id : k \in DOMAIN transactions }
        txn_of(id) == transactions[CHOOSE k \in DOMAIN transactions :
                                       transactions[k].id = id]
        changed == SelectSeq(transactions, LAMBDA txn :
                       PromotedLevel(txn, status[txn.id].commit_status,
                                     new_reference_date)
                           # status[txn.id].commit_status)
    IN  [status |->
            [id \in DOMAIN status |->
                IF id \in passed
                THEN [status[id] EXCEPT !.commit_status =
                         PromotedLevel(txn_of(id), @, new_reference_date)]
                ELSE status[id]],
         audit_entries |->
            [k \in DOMAIN changed |->
                [action |-> "MATCH_PROMOTED",
                 transaction_ids |-> << changed[k].id >>]]]

\* the transactions of a few runs whose pairs start SHADOW, SOFT and HARD
CommitProfiles ==
    { txn \in TxnProfiles :
        \/ txn.reference = "r1" /\ txn.amount_cents = 1000
        \/ txn.external_id = "R1"
        \/ txn.counterparty_name = "bdfghijkln"
        \/ ~txn.transaction_date.known }

\* a run of two invoices and their two payments, the payments in either order
CommitInputs ==
    { [invoices |-> << [a EXCEPT !.id = InvoiceId(1)], [b EXCEPT !.id = InvoiceId(2)] >>,
       payments |-> IF swapped
                    THEN << [b EXCEPT !.id = PaymentId(1)], [a EXCEPT !.id = PaymentId(2)] >>
                    ELSE << [a EXCEPT !.id = PaymentId(1)], [b EXCEPT !.id = PaymentId(2)] >>,
       reference_date |-> t] :
        a \in CommitProfiles, b \in CommitProfiles, swapped \in BOOLEAN,
        t \in ReferenceDates }

\* the reference dates of later calls
NewReferenceDates == {1, 3}

\* the lists of transactions a caller passes to promote_commits
PromoteLists == { peel_in.invoices \o peel_in.payments, peel_in.invoices, peel_in.payments }

\* the payment sets of a later process run: sub-lists of the known payments
PaymentSets ==
    { SelectSeq(peel_in.payments, LAMBDA pay : pay.id \in keep) :
        keep \in SUBSET { peel_in.payments[j].id : j \in DOMAIN peel_in.payments } }

CommitInit ==
    /\ peel_pc = "idle"
    /\ peel_in \in CommitInputs
    /\ peel_out = NoPeelingResult
    /\ txn_status = << >>
    /\ promote_calls = 0
    /\ promote_audit = << >>

\* SafePeelingEngine.promote_commits(transactions, new_reference_date)
PromoteCommits ==
    /\ peel_pc = "peeled"
    /\ promote_calls < MaxPromotes
    /\ \E transactions \in PromoteLists, new_reference_date \in NewReferenceDates :
          LET r == promote_commits(transactions, txn_status, new_reference_date)
          IN  /\ txn_status' = r.status
              /\ promote_audit' = r.audit_entries
    /\ promote_calls' = promote_calls + 1
    /\ UNCHANGED <<peel_pc, peel_in, peel_out>>
    /\ UNCHANGED <<bankVars, solverVars, pipeVars, leidenVars>>

\* SafePeelingEngine.process: the first run, on the run's payments and
\* reference date, or a later run on the same invoices with another reference
\* date and payment set; it writes the transactions it matches
ProcessRun ==
    /\ peel_pc \in {"idle", "peeled"}
    /\ \E payments \in (IF peel_pc = "idle" THEN {peel_in.payments} ELSE PaymentSets),
          reference_date \in (IF peel_pc = "idle" THEN {peel_in.reference_date}
                              ELSE NewReferenceDates) :
          LET r == peel_process(peel_in.invoices, payments, reference_date)
              ids == { peel_in.invoices[i].id : i \in DOMAIN peel_in.invoices }
                         \cup { peel_in.payments[j].id : j \in DOMAIN peel_in.payments }
          IN  /\ peel_out' = [matched_pairs |-> r.matched_pairs,
                              remaining_invoices |-> r.remaining_invoices,
                              remaining_payments |-> r.remaining_payments,
                              audit_entries |-> r.audit_entries]
              /\ txn_status' =
                    [id \in ids |->
                        IF id \in DOMAIN r.status /\ r.status[id] # PendingStatus
                        THEN r.status[id]
                        ELSE IF id \in DOMAIN txn_status THEN txn_status[id]
                        ELSE PendingStatus]
    /\ peel_pc' = "peeled"
    /\ UNCHANGED <<peel_in, promote_calls, promote_audit>>
    /\ UNCHANGED <<bankVars, solverVars, pipeVars, leidenVars>>

CommitNext ==
    \/ ProcessRun
    \/ PromoteCommits

-----------------------------------------------------------------------------
(* [D] LexSolver: the MILP of one cluster                                  *)
(* Scores (combined_score, semantic_score) are counted in 1/10000.         *)
(* The solver is free to return any optimal point of a phase; a phase ends *)
(* "Optimal", "NotSolved" (prob.solve raised: every value is None) or      *)
(* "Undefined" (any other status: the phase returns None).                 *)

max_abs_delta_cents == 50

fixed_gap_threshold_cents == 100

causality_buffer == 3

\* rescue_semantic_threshold 0.8
rescue_semantic_threshold == 8000

Statuses == {"Optimal", "NotSolved", "Undefined"}

\* Settings.calculate_allowed_delta: min(max_abs, int(total * 0.001))
calculate_allowed_delta(total_payment_cents) ==
    Min2(max_abs_delta_cents, total_payment_cents \div 1000)

Cluster(id, invoices, payments, edges) ==
    [id |-> id, invoices |-> invoices, payments |-> payments, edges |-> edges]

TransactionMatch(invoice_id, payment_id, combined_score) ==
    [invoice_id |-> invoice_id, payment_id |-> payment_id,
     combined_score |-> combined_score]

InvPos(cluster, id) ==
    CHOOSE i \in DOMAIN cluster.invoices : cluster.invoices[i].id = id

PayPos(cluster, id) ==
    CHOOSE j \in DOMAIN cluster.payments : cluster.payments[j].id = id

\* sum of the amounts of the transactions at the positions of S
AmountOf(txns, S) ==
    SeqSum([i \in 1..Len(txns) |-> IF i \in S THEN txns[i].amount_cents ELSE 0])

\* the causality constraints left out of the three programs
CausallyInvalidIgnored(inv, pay) == FALSE

\* the pair gets the constraint x_i + y_j <= 1
CausallyInvalid(inv, pay) ==
    /\ inv.transaction_date.known
    /\ pay.transaction_date.known
    /\ pay.transaction_date.day < inv.transaction_date.day - causality_buffer

\* binary selections (x, y) that respect the causality constraints
Selections(cluster) ==
    { s \in (SUBSET DOMAIN cluster.invoices) \X (SUBSET DOMAIN cluster.payments) :
        \A i \in s[1], j \in s[2] :
            ~CausallyInvalid(cluster.invoices[i], cluster.payments[j]) }

\* residuals <<gamma_pos, gamma_neg, delta>> within their bounds, summing to e
ResidualsAt(e, max_delta) ==
    { t \in (0..Min2(e, fixed_gap_threshold_cents))
              \X (0..Min2(e, fixed_gap_threshold_cents))
              \X (0..Min2(e, max_delta)) : t[1] + t[2] + t[3] = e }

\* residuals allowed by the constraint "phase1_bound"
ResidualsUpTo(cap, max_delta) ==
    UNION { ResidualsAt(e, max_delta) : e \in 0..cap }

\* the ways to split a paid total T over invoices with caps a_i - r_i <= caps[i]
RECURSIVE PaidVectors(_, _, _)
PaidVectors(caps, k, T) ==
    IF k > Len(caps) THEN (IF T = 0 THEN { <<>> } ELSE {})
    ELSE LET rest == SeqSum(SubSeq(caps, k + 1, Len(caps)))
         IN  UNION { { << p >> \o v : v \in PaidVectors(caps, k + 1, T - p) } :
                       p \in Max2(0, T - rest)..Min2(caps[k], T) }

\* the points of the MILP with selection s and residuals t: the balance
\*   sum(x_i a_i - r_i) - sum(y_j a_j) + gamma_pos - gamma_neg + delta = 0
\* with 0 <= r_i <= x_i a_i
Points(cluster, s, t) ==
    LET caps == [i \in 1..Len(cluster.invoices) |->
                    IF i \in s[1] THEN cluster.invoices[i].amount_cents ELSE 0]
        T == AmountOf(cluster.payments, s[2]) - t[1] + t[2] - t[3]
    IN  { [x |-> s[1], y |-> s[2],
           r |-> [i \in 1..Len(cluster.invoices) |-> caps[i] - v[i]],
           gamma_pos |-> t[1], gamma_neg |-> t[2], delta |-> t[3]] :
             v \in PaidVectors(caps, 1, T) }

PointsOver(cluster, sels, residuals) ==
    UNION { Points(cluster, s, t) : s \in sels, t \in residuals }

\* int(value(gamma_pos) - value(gamma_neg)) if value(gamma_pos) else 0
GammaOf(p) == IF p.gamma_pos # 0 THEN p.gamma_pos - p.gamma_neg ELSE 0

\* the dict returned by phases 1 and 2 ("cardinality" only from phase 2)
PhaseDict(p, has_cardinality) ==
    [ok |-> TRUE, delta |-> p.delta, gamma |-> GammaOf(p),
     has_cardinality |-> has_cardinality,
     cardinality |-> IF has_cardinality THEN Cardinality(p.x) ELSE 0,
     x |-> p.x, y |-> p.y, r |-> p.r]

\* the dict of a phase whose solve raised: every value is None
UnsolvedDict(cluster, has_cardinality) ==
    [ok |-> TRUE, delta |-> 0, gamma |-> 0,
     has_cardinality |-> has_cardinality, cardinality |-> 0,
     x |-> {}, y |-> {}, r |-> [i \in 1..Len(cluster.invoices) |-> 0]]

\* _solve_phase1 with status Optimal: the points of least delta + gamma_pos + gamma_neg
Phase1Optimum(cluster, max_delta) ==
    LET level(e) == PointsOver(cluster, Selections(cluster), ResidualsAt(e, max_delta))
        best == CHOOSE e \in 0..(2 * fixed_gap_threshold_cents + max_delta) :
                    /\ level(e) # {}
                    /\ \A f \in 0..(e - 1) : level(f) = {}
    IN  level(best)

\* _solve_phase1
_solve_phase1(cluster, max_delta, status) ==
    CASE status = "Optimal" ->
            { PhaseDict(p, FALSE) : p \in Phase1Optimum(cluster, max_delta) }
      [] status = "NotSolved" -> { UnsolvedDict(cluster, FALSE) }
      [] OTHER -> {}

\* _solve_phase2 with status Optimal: the points of least sum(x) under
\*   delta + gamma_pos + gamma_neg <= fixed_delta + abs(fixed_gamma) + 1
Phase2Optimum(cluster, max_delta, cap) ==
    LET level(k) == PointsOver(cluster,
                        { s \in Selections(cluster) : Cardinality(s[1]) = k },
                        ResidualsUpTo(cap, max_delta))
        best == CHOOSE k \in 0..Len(cluster.invoices) :
                    /\ level(k) # {}
                    /\ \A f \in 0..(k - 1) : level(f) = {}
    IN  level(best)

\* _solve_phase2
_solve_phase2(cluster, max_delta, fixed_delta, fixed_gamma, status) ==
    CASE status = "Optimal" ->
            { PhaseDict(p, TRUE) :
                p \in Phase2Optimum(cluster, max_delta, fixed_delta + Abs(fixed_gamma) + 1) }
      [] status = "NotSolved" -> { UnsolvedDict(cluster, TRUE) }
      [] OTHER -> {}

\* int(w * 1000): the objective coefficient of an edge of score w
ObjectiveCoefficient(combined_score) == combined_score \div 10

\* edges whose z_ij may be 1: z_ij <= x_i and z_ij <= y_j
EdgesWithin(cluster, s) ==
    { e \in DOMAIN cluster.edges :
        /\ InvPos(cluster, cluster.edges[e].invoice_id) \in s[1]
        /\ PayPos(cluster, cluster.edges[e].payment_id) \in s[2] }

Objective(cluster, z) ==
    SeqSum([e \in 1..Len(cluster.edges) |->
        IF e \in z THEN ObjectiveCoefficient(cluster.edges[e].combined_score) ELSE 0])

\* Optional[int] max_cardinality
NoCardinality == [some |-> FALSE, value |-> 0]

SomeCardinality(c) == [some |-> TRUE, value |-> c]

\* _solve_phase3 with status Optimal: the points (with their z) of greatest
\* score under "phase1_bound" and, if present, "phase2_bound"
Phase3Optimum(cluster, max_delta, cap, max_cardinality) ==
    LET residuals == ResidualsUpTo(cap, max_delta)
        sels == { s \in Selections(cluster) :
                    /\ max_cardinality.some =>
                          Cardinality(s[1]) <= max_cardinality.value + 1
                    /\ PointsOver(cluster, {s}, residuals) # {} }
        cands == UNION { { [s |-> s, z |-> z, value |-> Objective(cluster, z)] :
                            z \in SUBSET EdgesWithin(cluster, s) } : s \in sels }
        values == { c.value : c \in cands }
        best == CHOOSE v \in values : \A w \in values : w <= v
        optimal == { c \in cands : c.value = best }
    IN  UNION { { [point |-> p, z |-> c.z] : p \in PointsOver(cluster, {c.s}, residuals) } :
                  c \in optimal }

\* dict assignment matches[key] = value: a new key goes last, a known key
\* keeps its place and takes the new value
DictPut(matches, key, value) ==
    IF \E m \in DOMAIN matches : matches[m].invoice_id = key
    THEN [m \in DOMAIN matches |->
            IF matches[m].invoice_id = key
            THEN [invoice_id |-> key, payment_id |-> value] ELSE matches[m]]
    ELSE Append(matches, [invoice_id |-> key, payment_id |-> value])

\* "Build matches from z variables", in the order of the edges
RECURSIVE MatchesFromZ(_, _, _, _)
MatchesFromZ(cluster, z, e, acc) ==
    IF e > Len(cluster.edges) THEN acc
    ELSE LET edge == cluster.edges[e]
         IN  IF e \in z
             THEN MatchesFromZ(cluster, z, e + 1,
                    [matches |-> DictPut(acc.matches, edge.invoice_id, edge.payment_id),
                     semantic_score |-> acc.semantic_score + edge.combined_score])
             ELSE MatchesFromZ(cluster, z, e + 1, acc)

\* Optional[SolverSolution]
NoSolution ==
    [found |-> FALSE, selected_invoices |-> {}, selected_payments |-> {},
     matches |-> <<>>, remainders |-> <<>>, delta_cents |-> 0, gamma_cents |-> 0,
     semantic_score |-> 0, cardinality |-> 0, status |-> "none",
     phase1_value |-> 0, phase2_value |-> 0]

SolverSolution(cluster, x, y, r, delta, gamma, card, m, status) ==
    [found |-> TRUE,
     selected_invoices |-> { cluster.invoices[i].id : i \in x },
     selected_payments |-> { cluster.payments[j].id : j \in y },
     matches |-> m.matches,
     remainders |-> r,
     delta_cents |-> delta,
     gamma_cents |-> gamma,
     semantic_score |-> m.semantic_score,
     cardinality |-> card,
     status |-> status,
     phase1_value |-> 0, phase2_value |-> 0]

NoMatches == [matches |-> <<>>, semantic_score |-> 0]

\* phase 3 with a slack of two cents over the phase-1 error
_solve_phase3_slack2(cluster, max_delta, fixed_delta, fixed_gamma, max_cardinality, status) ==
    CASE status = "Optimal" ->
            { SolverSolution(cluster, o.point.x, o.point.y, o.point.r,
                             o.point.delta, GammaOf(o.point), Cardinality(o.point.x),
                             MatchesFromZ(cluster, o.z, 1, NoMatches), "Optimal") :
                o \in Phase3Optimum(cluster, max_delta,
                                    fixed_delta + Abs(fixed_gamma) + 2, max_cardinality) }
      [] status = "NotSolved" ->
            { SolverSolution(cluster, {}, {}, [i \in 1..Len(cluster.invoices) |-> 0],
                             0, 0, 0, NoMatches, "Not Solved") }
      [] OTHER -> {}

\* _solve_phase3
_solve_phase3(cluster, max_delta, fixed_delta, fixed_gamma, max_cardinality, status) ==
    CASE status = "Optimal" ->
            { SolverSolution(cluster, o.point.x, o.point.y, o.point.r,
                             o.point.delta, GammaOf(o.point), Cardinality(o.point.x),
                             MatchesFromZ(cluster, o.z, 1, NoMatches), "Optimal") :
                o \in Phase3Optimum(cluster, max_delta,
                                    fixed_delta + Abs(fixed_gamma) + 1, max_cardinality) }
      [] status = "NotSolved" ->
            { SolverSolution(cluster, {}, {}, [i \in 1..Len(cluster.invoices) |-> 0],
                             0, 0, 0, NoMatches, "Not Solved") }
      [] OTHER -> {}

\* the "simple matching heuristic" of _extract_solution_from_phase2
RECURSIVE MatchesFromEdges(_, _, _, _, _)
MatchesFromEdges(cluster, x, y, e, acc) ==
    IF e > Len(cluster.edges) THEN acc
    ELSE LET edge == cluster.edges[e]
         IN  IF /\ InvPos(cluster, edge.invoice_id) \in x
                /\ PayPos(cluster, edge.payment_id) \in y
                /\ \A m \in DOMAIN acc.matches : acc.matches[m].invoice_id # edge.invoice_id
             THEN MatchesFromEdges(cluster, x, y, e + 1,
                    [matches |-> Append(acc.matches,
                        [invoice_id |-> edge.invoice_id, payment_id |-> edge.payment_id]),
                     semantic_score |-> acc.semantic_score + edge.combined_score])
             ELSE MatchesFromEdges(cluster, x, y, e + 1, acc)

\* mutant: the matches are taken from every edge of the cluster
_extract_every_edge(phase2_result, cluster) ==
    SolverSolution(cluster, phase2_result.x, phase2_result.y, phase2_result.r,
                   phase2_result.delta, phase2_result.gamma, phase2_result.cardinality,
                   MatchesFromEdges(cluster, DOMAIN cluster.invoices,
                                    DOMAIN cluster.payments, 1, NoMatches),
                   "from_phase2")

\* _extract_solution_from_phase2
_extract_solution_from_phase2(phase2_result, cluster) ==
    SolverSolution(cluster, phase2_result.x, phase2_result.y, phase2_result.r,
                   phase2_result.delta, phase2_result.gamma, phase2_result.cardinality,
                   MatchesFromEdges(cluster, phase2_result.x, phase2_result.y, 1, NoMatches),
                   "from_phase2")

PartialMatch(invoice_id, payment_ids, invoice_amount, paid, remainder) ==
    [kind |-> "PartialMatch",
     invoice_id |-> invoice_id,
     payment_ids |-> payment_ids,
     invoice_amount_cents |-> invoice_amount,
     paid_amount_cents |-> paid,
     remainder_cents |-> remainder,
     confidence |-> "MEDIUM"]

\* the loop of _solution_to_result over solution.matches
RECURSIVE ResultFrom(_, _, _, _)
ResultFrom(cluster, solution, m, acc) ==
    IF m > Len(solution.matches) THEN acc
    ELSE LET inv_id == solution.matches[m].invoice_id
             pay_id == solution.matches[m].payment_id
             inv == cluster.invoices[InvPos(cluster, inv_id)]
             pay == cluster.payments[PayPos(cluster, pay_id)]
             found == solution.remainders[InvPos(cluster, inv_id)]
             is_gap_convertible == 0 < found /\ found <= max_abs_delta_cents
             effective_gap == IF is_gap_convertible THEN found ELSE solution.gamma_cents
             remainder == IF is_gap_convertible THEN 0 ELSE found
             used == [acc EXCEPT !.used_invoices = @ \cup {inv_id},
                                 !.used_payments = @ \cup {pay_id}]
         IN  IF remainder > 0
             THEN ResultFrom(cluster, solution, m + 1,
                    [used EXCEPT !.partial_matches = Append(@,
                        PartialMatch(inv_id, << pay_id >>, inv.amount_cents,
                                     inv.amount_cents - remainder, remainder))])
             ELSE ResultFrom(cluster, solution, m + 1,
                    [used EXCEPT !.matched_pairs = Append(@,
                        MatchedPair(<< inv_id >>, << pay_id >>, inv.amount_cents,
                                    pay.amount_cents, effective_gap, Similarity(0, 1),
                                    "MEDIUM", "SOFT", "milp_solver"))])

\* AuditEntry of the solver and of the rescue loop (solver_phase 0: None)
AuditEntry(action, cluster_id, solver_phase) ==
    [action |-> action, cluster_id |-> cluster_id, solver_phase |-> solver_phase]

\* audit_entries of solve_cluster once the three phases are through
SolveAudit(cluster_id) ==
    << AuditEntry("SOLVER_STARTED", cluster_id, 1),
       AuditEntry("SOLVER_PHASE_COMPLETED", cluster_id, 1),
       AuditEntry("SOLVER_STARTED", cluster_id, 2),
       AuditEntry("SOLVER_PHASE_COMPLETED", cluster_id, 2),
       AuditEntry("SOLVER_STARTED", cluster_id, 3),
       AuditEntry("SOLVER_PHASE_COMPLETED", cluster_id, 3) >>

SolverResult(cluster_id, solution, pairs, partials, unmatched_inv, unmatched_pay, audit_entries, rescue) ==
    [cluster_id |-> cluster_id, solution |-> solution,
     matched_pairs |-> pairs, partial_matches |-> partials,
     unmatched_invoices |-> unmatched_inv, unmatched_payments |-> unmatched_pay,
     audit_entries |-> audit_entries,
     needs_rescue |-> rescue]

IdsOf(txns) == [i \in 1..Len(txns) |-> txns[i].id]

\* _solution_to_result
_solution_to_result(cluster, solution) ==
    LET done == ResultFrom(cluster, solution, 1,
                    [matched_pairs |-> <<>>, partial_matches |-> <<>>,
                     used_invoices |-> {}, used_payments |-> {}])
    IN  SolverResult(cluster.id, solution, done.matched_pairs, done.partial_matches,
            SelectSeq(IdsOf(cluster.invoices), LAMBDA id : id \notin done.used_invoices),
            SelectSeq(IdsOf(cluster.payments), LAMBDA id : id \notin done.used_payments),
            SolveAudit(cluster.id), FALSE)

\* the tail of solve_cluster: phase values, conversion, the rescue flag
FinishSolve(cluster, solution, phase1_value, phase2_value) ==
    LET sol == [solution EXCEPT !.phase1_value = phase1_value,
                                !.phase2_value = phase2_value]
        result == _solution_to_result(cluster, sol)
    IN  [result EXCEPT !.needs_rescue =
            /\ sol.delta_cents > 0
            /\ SeqSum(sol.remainders) = 0
            /\ sol.semantic_score < rescue_semantic_threshold]

\* "Phase 1 failed": the result is built without the audit entries
Phase1Failed(cluster) ==
    SolverResult(cluster.id, NoSolution, <<>>, <<>>,
                 IdsOf(cluster.invoices), IdsOf(cluster.payments), <<>>, TRUE)

\* phase 3 run without the cardinality found by phase 2
MaxCardinalityIgnored(phase2_result) == NoCardinality

\* phase2_result.get("cardinality")
MaxCardinalityOf(phase2_result) ==
    IF phase2_result.has_cardinality
    THEN SomeCardinality(phase2_result.cardinality) ELSE NoCardinality

\* phases 2 and 3 after the phase-1 results that report (fixed_delta,
\* fixed_gamma), for the statuses st2 and st3. A failed phase 2 is replaced
\* by the phase-1 result; a failed phase 3 by the phase-2 extraction.
AfterPhase1(cluster, max_delta, phase1_results, fixed_delta, fixed_gamma, st2, st3) ==
    LET solved2 == _solve_phase2(cluster, max_delta, fixed_delta, fixed_gamma, st2)
        phase2_results == IF solved2 = {} THEN phase1_results ELSE solved2
        phase1_value == fixed_delta + Abs(fixed_gamma)
    IN  UNION { LET solved3 == _solve_phase3(cluster, max_delta, fixed_delta,
                                             fixed_gamma, c, st3)
                    solutions ==
                        IF solved3 = {}
                        THEN { _extract_solution_from_phase2(phase2_result, cluster) :
                                 phase2_result \in
                                    { q \in phase2_results : MaxCardinalityOf(q) = c } }
                        ELSE solved3
                IN  { FinishSolve(cluster, solution, phase1_value, c.value) :
                        solution \in solutions } :
                c \in { MaxCardinalityOf(q) : q \in phase2_results } }

\* solve_cluster when the three prob.solve calls end with statuses st1, st2
\* and st3: every result the call can return, over the optimal points the
\* solver may pick
SolveEnding(cluster, st1, st2, st3) ==
    LET total_payment_cents == AmountOf(cluster.payments, DOMAIN cluster.payments)
        max_delta == calculate_allowed_delta(total_payment_cents)
        solved1 == _solve_phase1(cluster, max_delta, st1)
    IN  IF solved1 = {} THEN { Phase1Failed(cluster) }
        ELSE UNION { AfterPhase1(cluster, max_delta,
                        { q \in solved1 : <<q.delta, q.gamma>> = k },
                        k[1], k[2], st2, st3) :
                     k \in { <<q.delta, q.gamma>> : q \in solved1 } }

\* solve_cluster: every result the call can return
solve_cluster(cluster) ==
    UNION { SolveEnding(cluster, st[1], st[2], st[3]) :
              st \in Statuses \X Statuses \X Statuses }

-----------------------------------------------------------------------------
(* [D] LexSolver: inputs and state machine                                 *)

MaxPayments == 2

ClusterInvoice(amount, date) == Transaction(<<>>, "", "", amount, date, "", "AAA010101")

ClusterPayment(amount, date) == Transaction(<<>>, "", "", amount, date, "", "AAA010101")

\* invoice lists of a cluster: at most one invoice of a large amount
ClusterInvoiceLists ==
    LET big == ClusterInvoice(1000, Day(0))
        small == ClusterInvoice(2, Day(0))
    IN  { << big >>, << small >>, << big, small >>, << small, big >>, << small, small >> }

\* payments; the last one precedes the invoices by more than the causality buffer
ClusterPaymentProfiles ==
    { ClusterPayment(1000, Day(0)), ClusterPayment(1001, Day(0)),
      ClusterPayment(1, Day(0)), ClusterPayment(1000, Day(0 - 10)) }

ClusterPaymentLists ==
    UNION { [1..n -> ClusterPaymentProfiles] : n \in 1..MaxPayments }

WithIds(txns, Id(_)) == [k \in 1..Len(txns) |-> [txns[k] EXCEPT !.id = Id(k)]]

\* the invoice/payment position pairs that carry a candidate edge
EdgePairs(pattern, ni, np) ==
    CASE pattern = "all"    -> { <<i, j>> : i \in 1..ni, j \in 1..np }
      [] pattern = "diag"   -> { <<k, k>> : k \in 1..Min2(ni, np) }
      [] pattern = "row"    -> { <<1, j>> : j \in 1..np }
      [] pattern = "column" -> { <<i, 1>> : i \in 1..ni }
      [] OTHER              -> {}

EdgePatterns == {"none", "all", "diag", "row", "column"}

ScorePatterns == {"low", "high", "mixed"}

\* combined_score of the k-th edge (0.2, 0.9, or alternating)
EdgeScore(scores, k) ==
    CASE scores = "low"  -> 2000
      [] scores = "high" -> 9000
      [] OTHER           -> IF k % 2 = 1 THEN 9000 ELSE 2000

\* the edges of a pattern in row-major order
RECURSIVE EdgeList(_, _, _, _, _)
EdgeList(pairs, scores, ni, np, k) ==
    IF k > ni * np THEN <<>>
    ELSE LET i == ((k - 1) \div np) + 1
             j == ((k - 1) % np) + 1
             rest == EdgeList(pairs, scores, ni, np, k + 1)
         IN  IF <<i, j>> \in pairs
             THEN << TransactionMatch(InvoiceId(i), PaymentId(j), 0) >> \o rest
             ELSE rest

ClusterEdges(pattern, scores, ni, np) ==
    LET bare == EdgeList(EdgePairs(pattern, ni, np), scores, ni, np, 1)
    IN  [k \in 1..Len(bare) |-> [bare[k] EXCEPT !.combined_score = EdgeScore(scores, k)]]

\* two invoices, each with an edge to its own payment of the same amount
BalancedCluster ==
    Cluster("balanced",
        WithIds(<< ClusterInvoice(1000, Day(0)), ClusterInvoice(2, Day(0)) >>, InvoiceId),
        WithIds(<< ClusterPayment(1000, Day(0)), ClusterPayment(2, Day(0)) >>, PaymentId),
        << TransactionMatch(InvoiceId(1), PaymentId(1), 9000),
           TransactionMatch(InvoiceId(2), PaymentId(2), 9000) >>)

\* one payment that the third invoice balances alone and the first two
\* balance together, every invoice with an edge to it
ParsimonyCluster ==
    Cluster("parsimony",
        WithIds(<< ClusterInvoice(2, Day(0)), ClusterInvoice(2, Day(0)),
                   ClusterInvoice(4, Day(0)) >>, InvoiceId),
        WithIds(<< ClusterPayment(4, Day(0)) >>, PaymentId),
        << TransactionMatch(InvoiceId(1), PaymentId(1), 8000),
           TransactionMatch(InvoiceId(2), PaymentId(1), 8000),
           TransactionMatch(InvoiceId(3), PaymentId(1), 8500) >>)

\* two invoices, each with a weak edge to its own payment; the payments
\* exceed the invoices by one cent
LowAverageCluster ==
    Cluster("low_average",
        WithIds(<< ClusterInvoice(1000, Day(0)), ClusterInvoice(2, Day(0)) >>, InvoiceId),
        WithIds(<< ClusterPayment(1001, Day(0)), ClusterPayment(2, Day(0)) >>, PaymentId),
        << TransactionMatch(InvoiceId(1), PaymentId(1), 5000),
           TransactionMatch(InvoiceId(2), PaymentId(2), 5000) >>)

SolverClusters ==
    { Cluster("c1", WithIds(is, InvoiceId), WithIds(ps, PaymentId),
              ClusterEdges(ep, sp, Len(is), Len(ps))) :
        is \in ClusterInvoiceLists, ps \in ClusterPaymentLists,
        ep \in EdgePatterns, sp \in ScorePatterns }
    \cup { BalancedCluster, ParsimonyCluster, LowAverageCluster }

NoCluster == Cluster("none", <<>>, <<>>, <<>>)

NoSolverResult == SolverResult("none", NoSolution, <<>>, <<>>, <<>>, <<>>, <<>>, FALSE)

SolverOff ==
    /\ solver_pc = "off"
    /\ solver_cluster = NoCluster
    /\ solver_result = NoSolverResult
    /\ solver_statuses = << "none", "none", "none" >>

SolverInit ==
    /\ solver_pc = "idle"
    /\ solver_cluster \in SolverClusters
    /\ solver_result = NoSolverResult
    /\ solver_statuses = << "none", "none", "none" >>

\* LexicographicMILPSolver.solve_cluster on the cluster
SolveCluster ==
    /\ solver_pc = "idle"
    /\ \E st1 \in Statuses, st2 \in Statuses, st3 \in Statuses :
          \E result \in SolveEnding(solver_cluster, st1, st2, st3) :
              /\ solver_result' = result
              /\ solver_statuses' = IF result.solution.found THEN << st1, st2, st3 >>
                                    ELSE << st1, "none", "none" >>
    /\ solver_pc' = "solved"
    /\ UNCHANGED solver_cluster
    /\ UNCHANGED <<bankVars, peelVars, pipeVars, leidenVars>>

SolverNext == SolveCluster

-----------------------------------------------------------------------------
(* [E] RescueLoop                                                          *)

hard_stop_size == 500

\* Cluster.size
ClusterSize(cluster) == Len(cluster.invoices) + Len(cluster.payments)

\* Optional[Cluster]
NoClusterFound == [some |-> FALSE, cluster |-> NoCluster]

SomeCluster(cluster) == [some |-> TRUE, cluster |-> cluster]

\* cluster_map.get(cluster_id)
ClusterMapGet(all_clusters, cluster_id) ==
    IF \E k \in DOMAIN all_clusters : all_clusters[k].id = cluster_id
    THEN SomeCluster(all_clusters[CHOOSE k \in DOMAIN all_clusters :
                                      all_clusters[k].id = cluster_id])
    ELSE NoClusterFound

\* LeidenClusterEngine.merge_clusters
merge_clusters(cluster1, cluster2) ==
    Cluster(cluster1.id \o "+" \o cluster2.id,
            cluster1.invoices \o cluster2.invoices,
            cluster1.payments \o cluster2.payments,
            cluster1.edges \o cluster2.edges)

\* _should_trigger_rescue
_should_trigger_rescue(result, found, orphan_invoices, orphan_payments) ==
    IF ~result.solution.found THEN TRUE
    ELSE LET delta == result.solution.delta_cents
             total_remainder == SeqSum(result.solution.remainders)
             matches == Max2(Len(result.solution.matches), 1)
             ppd_invoices == IF found.some
                             THEN Cardinality({ i \in DOMAIN found.cluster.invoices :
                                        found.cluster.invoices[i].metodo_pago = "PPD" })
                             ELSE 0
         IN  IF ppd_invoices > 0 /\ total_remainder > 0 THEN FALSE
             ELSE IF result.solution.semantic_score > rescue_semantic_threshold * matches
                  THEN FALSE
             ELSE IF delta > 0 /\ total_remainder = 0 THEN TRUE
             ELSE IF delta > 0
                     /\ \/ \E i \in DOMAIN orphan_invoices :
                              orphan_invoices[i].amount_cents = delta
                        \/ \E j \in DOMAIN orphan_payments :
                              orphan_payments[j].amount_cents = delta
                  THEN TRUE
             ELSE FALSE

\* _try_add_matching_orphan: the first orphan invoice, else the first orphan
\* payment, within 10 cents of delta
_try_add_matching_orphan(cluster, delta, orphan_invoices, orphan_payments) ==
    LET invs == SelectSeq(orphan_invoices, LAMBDA inv : Abs(inv.amount_cents - delta) <= 10)
        pays == SelectSeq(orphan_payments, LAMBDA pay : Abs(pay.amount_cents - delta) <= 10)
    IN  IF invs # <<>>
        THEN SomeCluster(Cluster(cluster.id \o "_aug",
                                 Append(cluster.invoices, invs[1]),
                                 cluster.payments, cluster.edges))
        ELSE IF pays # <<>>
        THEN SomeCluster(Cluster(cluster.id \o "_aug", cluster.invoices,
                                 Append(cluster.payments, pays[1]), cluster.edges))
        ELSE NoClusterFound

\* the upper-cased RFCs of a cluster's transactions
ClusterRfcs(cluster) ==
    { upper(cluster.invoices[i].counterparty_rfc) :
        i \in { i \in DOMAIN cluster.invoices : cluster.invoices[i].counterparty_rfc # "" } }
    \cup
    { upper(cluster.payments[j].counterparty_rfc) :
        j \in { j \in DOMAIN cluster.payments : cluster.payments[j].counterparty_rfc # "" } }

\* list.sort(key=size): stable insertion by size
RECURSIVE SortBySize(_)
SortBySize(clusters) ==
    IF clusters = <<>> THEN <<>>
    ELSE LET c == clusters[Len(clusters)]
             sorted == SortBySize(SubSeq(clusters, 1, Len(clusters) - 1))
             before == SelectSeq(sorted, LAMBDA d : ClusterSize(d) <= ClusterSize(c))
             after == SelectSeq(sorted, LAMBDA d : ClusterSize(d) > ClusterSize(c))
         IN  before \o << c >> \o after

\* _find_adjacent_clusters: other clusters sharing an RFC, smallest first, top 3
_find_adjacent_clusters(cluster, all_clusters) ==
    LET adjacent == SelectSeq(all_clusters, LAMBDA other :
                        /\ other.id # cluster.id
                        /\ ClusterRfcs(cluster) \cap ClusterRfcs(other) # {})
        sorted == SortBySize(adjacent)
    IN  SubSeq(sorted, 1, Min2(3, Len(sorted)))

\* (new_result, audit_entries, was_hard_stopped) of _attempt_rescue
RescueFailed(audit_entries, hard_stopped) ==
    [rescued |-> FALSE, result |-> NoSolverResult,
     audit_entries |-> audit_entries, hard_stopped |-> hard_stopped]

Rescued(result, audit_entries) ==
    [rescued |-> TRUE, result |-> result,
     audit_entries |-> audit_entries, hard_stopped |-> FALSE]

\* the results of a re-solve that end the rescue, and whether some result of
\* it still needs rescue
Accepted(new_results, audit_entries) ==
    { Rescued(new_result, audit_entries) :
        new_result \in { r \in new_results : ~r.needs_rescue } }

StillFailing(new_results) == \E new_result \in new_results : new_result.needs_rescue

\* "Strategy 2": merge with the adjacent clusters in turn and re-solve
RECURSIVE MergeAndSolve(_, _, _, _)
MergeAndSolve(cluster, adjacent_clusters, k, audit_entries) ==
    IF k > Len(adjacent_clusters) THEN { RescueFailed(audit_entries, FALSE) }
    ELSE LET merged == merge_clusters(cluster, adjacent_clusters[k])
             audited == Append(audit_entries,
                               AuditEntry("RESCUE_TRIGGERED", cluster.id, 0))
         IN  IF ClusterSize(merged) > hard_stop_size
             THEN { RescueFailed(audited, TRUE) }
             ELSE LET new_results == solve_cluster(merged)
                  IN  Accepted(new_results, audited)
                      \cup (IF StillFailing(new_results)
                            THEN MergeAndSolve(cluster, adjacent_clusters, k + 1, audited)
                            ELSE {})

\* _attempt_rescue: every outcome the call can have
_attempt_rescue(result, all_clusters, orphan_invoices, orphan_payments) ==
    LET found == ClusterMapGet(all_clusters, result.cluster_id)
        cluster == found.cluster
        delta == IF result.solution.found THEN result.solution.delta_cents ELSE 0
        augmented == _try_add_matching_orphan(cluster, delta, orphan_invoices,
                                              orphan_payments)
        strategy2(audit_entries) ==
            MergeAndSolve(cluster, _find_adjacent_clusters(cluster, all_clusters), 1,
                          audit_entries)
    IN  IF ~found.some THEN { RescueFailed(<<>>, FALSE) }
        ELSE IF augmented.some /\ ClusterSize(augmented.cluster) <= hard_stop_size
        THEN LET new_results == solve_cluster(augmented.cluster)
                 audited == << AuditEntry("RESCUE_TRIGGERED", cluster.id, 0) >>
             IN  Accepted(new_results, audited)
                 \cup (IF StillFailing(new_results) THEN strategy2(audited) ELSE {})
        ELSE strategy2(<<>>)

\* _create_manual_review_case
AmbiguousCase(result, found) ==
    [invoice_ids |-> IF found.some THEN IdsOf(found.cluster.invoices)
                     ELSE result.unmatched_invoices,
     payment_ids |-> IF found.some THEN IdsOf(found.cluster.payments)
                     ELSE result.unmatched_payments,
     solver_delta_cents |-> IF result.solution.found
                            THEN result.solution.delta_cents ELSE 0,
     best_score |-> IF result.solution.found
                    THEN result.solution.semantic_score ELSE 0]

NoRescueResult ==
    [solver_results |-> <<>>, manual_review |-> <<>>, audit_entries |-> <<>>,
     rescue_iterations |-> 0, hard_stopped |-> FALSE]

\* the loop of RescueLoopEngine.process over failed_results
RECURSIVE RescueFrom(_, _, _, _, _, _)
RescueFrom(failed_results, all_clusters, orphan_invoices, orphan_payments, k, acc) ==
    IF k > Len(failed_results) THEN { acc }
    ELSE LET result == failed_results[k]
             found == ClusterMapGet(all_clusters, result.cluster_id)
             kept == [acc EXCEPT !.solver_results = Append(@, result)]
         IN  IF ~result.needs_rescue
             THEN RescueFrom(failed_results, all_clusters, orphan_invoices,
                             orphan_payments, k + 1, kept)
             ELSE IF ~_should_trigger_rescue(result, found, orphan_invoices,
                                             orphan_payments)
             THEN RescueFrom(failed_results, all_clusters, orphan_invoices,
                             orphan_payments, k + 1, kept)
             ELSE UNION {
                    RescueFrom(failed_results, all_clusters, orphan_invoices,
                        orphan_payments, k + 1,
                        [solver_results |->
                            IF o.rescued THEN Append(acc.solver_results, o.result)
                            ELSE acc.solver_results,
                         manual_review |->
                            IF o.rescued THEN acc.manual_review
                            ELSE Append(acc.manual_review, AmbiguousCase(result, found)),
                         audit_entries |->
                            acc.audit_entries
                            \o << AuditEntry("RESCUE_TRIGGERED", result.cluster_id, 0) >>
                            \o o.audit_entries
                            \o (IF o.rescued THEN <<>>
                                ELSE << AuditEntry("MANUAL_REVIEW_REQUIRED",
                                                   result.cluster_id, 0) >>),
                         rescue_iterations |-> acc.rescue_iterations + 1,
                         hard_stopped |-> acc.hard_stopped \/ o.hard_stopped]) :
                    o \in _attempt_rescue(result, all_clusters, orphan_invoices,
                                          orphan_payments) }

\* RescueLoopEngine.process: every RescueResult the call can return
rescue_process(failed_results, all_clusters, orphan_invoices, orphan_payments) ==
    RescueFrom(failed_results, all_clusters, orphan_invoices, orphan_payments,
               1, NoRescueResult)

-----------------------------------------------------------------------------
(* [E] Orchestrator: ReconciliationOrchestrator.run                        *)

ReconciliationResult(status, pairs, partials, manual, unmatched_inv, unmatched_pay) ==
    [status |-> status, matched_pairs |-> pairs, partial_matches |-> partials,
     manual_review |-> manual,
     unmatched_invoices |-> unmatched_inv, unmatched_payments |-> unmatched_pay,
     audit_log |-> <<>>, errors |-> <<>>]

\* clusters of one invoice, one bank payment (no RFC) and the edge between them
ClusterTemplates ==
    { [invoice_cents |-> 1000, payment_cents |-> 1001, score |-> 2000, rfc |-> "AAA010101"],
      [invoice_cents |-> 2, payment_cents |-> 2, score |-> 9000, rfc |-> "aaa010101"],
      [invoice_cents |-> 2, payment_cents |-> 2, score |-> 9000, rfc |-> "BBB020202"] }

TemplateCluster(t, c) ==
    Cluster("c" \o ToString(c),
            << Transaction(InvoiceId(c), "", "", t.invoice_cents, Day(0), "", t.rfc) >>,
            << Transaction(PaymentId(c), "", "", t.payment_cents, Day(0), "", "") >>,
            << TransactionMatch(InvoiceId(c), PaymentId(c), t.score) >>)

\* the clusters of a run: one or two, at most one of them with a large invoice
ClusterLists ==
    { << TemplateCluster(t, 1) >> : t \in ClusterTemplates }
    \cup
    { << TemplateCluster(tu[1], 1), TemplateCluster(tu[2], 2) >> :
        tu \in { p \in ClusterTemplates \X ClusterTemplates :
                   p[1].invoice_cents <= 2 \/ p[2].invoice_cents <= 2 } }

\* transactions the clustering leaves outside every cluster
OrphanOptions ==
    { [invoices |-> <<>>, payments |-> <<>>],
      [invoices |-> << Transaction(InvoiceId(100), "", "", 2, Day(0), "", "") >>,
       payments |-> <<>>],
      [invoices |-> <<>>,
       payments |-> << Transaction(PaymentId(100), "", "", 1, Day(0), "", "") >>] }

\* an invoice and a payment that SafePeel commits by reference
PeelableOptions ==
    { [invoices |-> <<>>, payments |-> <<>>],
      [invoices |-> << Transaction(InvoiceId(0), "", "r1", 500, Day(0 - 10), "", "") >>,
       payments |-> << Transaction(PaymentId(0), "", "r1", 500, Day(0 - 10), "", "") >>] }

ClusteringResult(clusters, orphan_invoices, orphan_payments) ==
    [clusters |-> clusters, orphan_invoices |-> orphan_invoices,
     orphan_payments |-> orphan_payments]

NoClusteringResult == ClusteringResult(<<>>, <<>>, <<>>)

\* the invoices (payments) of a list of clusters, in cluster order
RECURSIVE ClusterTxns(_, _)
ClusterTxns(clusters, side) ==
    IF clusters = <<>> THEN <<>>
    ELSE (IF side = "invoices" THEN Head(clusters).invoices ELSE Head(clusters).payments)
         \o ClusterTxns(Tail(clusters), side)

\* the run's transactions, and the grouping the cluster engine gives to those
\* SafePeel leaves
PipelineInputs ==
    { [invoices |-> p.invoices \o ClusterTxns(cs, "invoices") \o o.invoices,
       payments |-> p.payments \o ClusterTxns(cs, "payments") \o o.payments,
       reference_date |-> 0,
       clustering |-> ClusteringResult(cs, o.invoices, o.payments)] :
        p \in PeelableOptions, cs \in ClusterLists, o \in OrphanOptions }

NoPipelineInput ==
    [invoices |-> <<>>, payments |-> <<>>, reference_date |-> 0,
     clustering |-> NoClusteringResult]

NoRemaining == [invoices |-> <<>>, payments |-> <<>>]

EmptyResult(status) == ReconciliationResult(status, <<>>, <<>>, <<>>, <<>>, <<>>)

PipelineOff ==
    /\ pipe_pc = "off"
    /\ pipe_in = NoPipelineInput
    /\ remaining_txns = NoRemaining
    /\ clustering_result = NoClusteringResult
    /\ cluster_index = 0
    /\ orch_failed_results = <<>>
    /\ rescue_result = NoRescueResult
    /\ job_status = "PENDING"
    /\ recon_result = EmptyResult("COMPLETED")

PipelineInit ==
    /\ pipe_pc = "ingested"
    /\ pipe_in \in PipelineInputs
    /\ remaining_txns = NoRemaining
    /\ clustering_result = NoClusteringResult
    /\ cluster_index = 0
    /\ orch_failed_results = <<>>
    /\ rescue_result = NoRescueResult
    /\ job_status = "INGESTING"
    /\ recon_result = [EmptyResult("COMPLETED") EXCEPT
                          !.audit_log = << AuditEntry("TRANSACTION_INGESTED", "", 0),
                                           AuditEntry("TRANSACTION_INGESTED", "", 0) >>]

\* "Phase 0: Safe Peeling"
RunSafePeel ==
    /\ pipe_pc = "ingested"
    /\ LET peeling_result == peel_process(pipe_in.invoices, pipe_in.payments,
                                          pipe_in.reference_date)
       IN  /\ recon_result' = [recon_result EXCEPT
                            !.matched_pairs = @ \o peeling_result.matched_pairs,
                            !.audit_log = @ \o peeling_result.audit_entries]
           /\ remaining_txns' = [invoices |-> peeling_result.remaining_invoices,
                            payments |-> peeling_result.remaining_payments]
    /\ job_status' = "PEELING"
    /\ pipe_pc' = "peeled"
    /\ UNCHANGED <<pipe_in, clustering_result, cluster_index, orch_failed_results,
                   rescue_result>>
    /\ UNCHANGED <<bankVars, peelVars, solverVars, leidenVars>>

\* "Phase 1: Clustering": the engine groups the remaining_txns transactions
RunClustering ==
    /\ pipe_pc = "peeled"
    /\ LET c == pipe_in.clustering
       IN  /\ remaining_txns.invoices = ClusterTxns(c.clusters, "invoices") \o c.orphan_invoices
           /\ remaining_txns.payments = ClusterTxns(c.clusters, "payments") \o c.orphan_payments
           /\ clustering_result' = c
           /\ recon_result' = [recon_result EXCEPT
                 !.audit_log = @ \o [k \in DOMAIN c.clusters |->
                                        AuditEntry("CLUSTER_CREATED", c.clusters[k].id, 0)]]
    /\ cluster_index' = 1
    /\ job_status' = "CLUSTERING"
    /\ pipe_pc' = "solving"
    /\ UNCHANGED <<pipe_in, remaining_txns, orch_failed_results, rescue_result>>
    /\ UNCHANGED <<bankVars, peelVars, solverVars, leidenVars>>

\* one iteration of "Phase 2: MILP Solving"
SolveNextCluster ==
    /\ pipe_pc = "solving"
    /\ cluster_index <= Len(clustering_result.clusters)
    /\ \E solved \in solve_cluster(clustering_result.clusters[cluster_index]) :
          IF solved.needs_rescue
          THEN /\ orch_failed_results' = Append(orch_failed_results, solved)
               /\ recon_result' = [recon_result EXCEPT
                                !.audit_log = @ \o solved.audit_entries]
          ELSE /\ recon_result' = [recon_result EXCEPT
                                !.audit_log = @ \o solved.audit_entries,
                                !.matched_pairs = @ \o solved.matched_pairs,
                                !.partial_matches = @ \o solved.partial_matches]
               /\ UNCHANGED orch_failed_results
    /\ cluster_index' = cluster_index + 1
    /\ job_status' = "SOLVING"
    /\ UNCHANGED <<pipe_pc, pipe_in, remaining_txns, clustering_result, rescue_result>>
    /\ UNCHANGED <<bankVars, peelVars, solverVars, leidenVars>>

\* the pairs (partial matches) of a list of solver results
RECURSIVE Extend(_, _, _)
Extend(acc, solver_results, field) ==
    IF solver_results = <<>> THEN acc
    ELSE Extend(acc \o (IF field = "matched_pairs" THEN Head(solver_results).matched_pairs
                        ELSE Head(solver_results).partial_matches),
                Tail(solver_results), field)

\* "Phase 3: Rescue Loop", entered when some cluster needs rescue
RunRescueLoop ==
    /\ pipe_pc = "solving"
    /\ cluster_index > Len(clustering_result.clusters)
    /\ orch_failed_results # <<>>
    /\ \E returned \in rescue_process(orch_failed_results, clustering_result.clusters,
                                      clustering_result.orphan_invoices,
                                      clustering_result.orphan_payments) :
          /\ rescue_result' = returned
          /\ recon_result' = [recon_result EXCEPT
                !.audit_log = @ \o returned.audit_entries,
                !.manual_review = @ \o returned.manual_review,
                !.matched_pairs = Extend(@, returned.solver_results, "matched_pairs"),
                !.partial_matches = Extend(@, returned.solver_results, "partial_matches")]
    /\ job_status' = "RESCUE"
    /\ pipe_pc' = "rescued"
    /\ UNCHANGED <<pipe_in, remaining_txns, clustering_result, cluster_index,
                   orch_failed_results>>
    /\ UNCHANGED <<bankVars, peelVars, solverVars, leidenVars>>

\* ids named by the matched pairs and partial matches of a recon_result
MatchedIds(res, side) ==
    UNION { Range(IF side = "invoices" THEN res.matched_pairs[k].invoice_ids
                  ELSE res.matched_pairs[k].payment_ids) : k \in DOMAIN res.matched_pairs }
    \cup
    UNION { IF side = "invoices" THEN { res.partial_matches[k].invoice_id }
            ELSE Range(res.partial_matches[k].payment_ids) : k \in DOMAIN res.partial_matches }

\* "Collect unmatched"
CollectUnmatched(res) ==
    [res EXCEPT
        !.unmatched_invoices =
            SelectSeq(IdsOf(pipe_in.invoices),
                      LAMBDA id : id \notin MatchedIds(res, "invoices")),
        !.unmatched_payments =
            SelectSeq(IdsOf(pipe_in.payments),
                      LAMBDA id : id \notin MatchedIds(res, "payments"))]

\* the solving loop and the rescue loop, if entered, are through
StagesDone ==
    \/ pipe_pc = "rescued"
    \/ /\ pipe_pc = "solving"
       /\ cluster_index > Len(clustering_result.clusters)
       /\ orch_failed_results = <<>>

\* "Collect unmatched", "Compute summary" and "Complete"
Complete ==
    /\ StagesDone
    /\ recon_result' = [CollectUnmatched(recon_result) EXCEPT !.status = "COMPLETED"]
    /\ job_status' = "COMPLETED"
    /\ pipe_pc' = "completed"
    /\ UNCHANGED <<pipe_in, remaining_txns, clustering_result, cluster_index,
                   orch_failed_results, rescue_result>>
    /\ UNCHANGED <<bankVars, peelVars, solverVars, leidenVars>>

\* an except clause that hands back a fresh result
StageFails_discards ==
    /\ pipe_pc \in {"ingested", "peeled", "solving", "rescued"}
    /\ recon_result' = [EmptyResult("FAILED") EXCEPT !.errors = << "str(e)" >>]
    /\ job_status' = "FAILED"
    /\ pipe_pc' = "failed"
    /\ UNCHANGED <<pipe_in, remaining_txns, clustering_result, cluster_index,
                   orch_failed_results, rescue_result>>
    /\ UNCHANGED <<bankVars, peelVars, solverVars, leidenVars>>

\* the stage about to run raises: "except Exception as e". When the
\* summary is the stage that raises, the unmatched lists are already set.
StageFails ==
    /\ pipe_pc \in {"ingested", "peeled", "solving", "rescued"}
    /\ \E in_summary \in BOOLEAN :
          /\ in_summary => StagesDone
          /\ recon_result' =
                [(IF in_summary THEN CollectUnmatched(recon_result) ELSE recon_result)
                    EXCEPT !.status = "FAILED", !.errors = Append(@, "str(e)")]
    /\ job_status' = "FAILED"
    /\ pipe_pc' = "failed"
    /\ UNCHANGED <<pipe_in, remaining_txns, clustering_result, cluster_index,
                   orch_failed_results, rescue_result>>
    /\ UNCHANGED <<bankVars, peelVars, solverVars, leidenVars>>

PipelineNext ==
    \/ RunSafePeel
    \/ RunClustering
    \/ SolveNextCluster
    \/ RunRescueLoop
    \/ Complete
    \/ StageFails

-----------------------------------------------------------------------------
(* [C] Cluster: LeidenClusterEngine                                        *)
(* leidenalg.find_partition is free to return any partition of the graph's *)
(* nodes, its communities numbered from 0.                                 *)

\* Settings.max_cluster_size (100 by default), set small enough for the
\* communities of MaxNodes nodes to be split
max_cluster_size == 2

MaxNodes == 4

\* the nodes of community c
CommunityNodes(membership, c) == { i \in DOMAIN membership : membership[i] = c }

\* partition.membership over n nodes
Memberships(n) ==
    { f \in [1..n -> 0..(n - 1)] : \E k \in 1..n : Range(f) = 0..(k - 1) }

\* "Group nodes by community": the communities in the order of their first node
RECURSIVE CommunitiesFrom(_, _, _)
CommunitiesFrom(membership, node_idx, communities) ==
    IF node_idx > Len(membership) THEN communities
    ELSE CommunitiesFrom(membership, node_idx + 1,
            IF membership[node_idx] \in Range(communities) THEN communities
            ELSE Append(communities, membership[node_idx]))

\* the members of seq at the positions of S, in order
AtPositions(seq, S) ==
    LET kept == SelectSeq([i \in 1..Len(seq) |-> i], LAMBDA i : i \in S)
    IN  [k \in 1..Len(kept) |-> seq[kept[k]]]

\* one community as a Cluster: nodes 1..Len(invoices) are the invoices, the
\* others the payments
CommunityCluster(membership, comm_idx, invoices, payments, edges) ==
    LET nodes == CommunityNodes(membership, comm_idx)
        cluster_invoices == AtPositions(invoices, nodes)
        cluster_payments ==
            AtPositions(payments, { i - Len(invoices) : i \in nodes } \cap DOMAIN payments)
        cluster_txn_ids == Range(IdsOf(cluster_invoices)) \cup Range(IdsOf(cluster_payments))
    IN  Cluster("cluster_" \o ToString(comm_idx), cluster_invoices, cluster_payments,
                SelectSeq(edges, LAMBDA e : /\ e.invoice_id \in cluster_txn_ids
                                            /\ e.payment_id \in cluster_txn_ids))

\* every community kept as a cluster, also those of a single type
_partition_keep_all(membership, invoices, payments, edges) ==
    LET communities == CommunitiesFrom(membership, 1, <<>>)
    IN  [k \in 1..Len(communities) |->
            CommunityCluster(membership, communities[k], invoices, payments, edges)]

\* _partition_to_clusters: communities of a single type are skipped
_partition_to_clusters(membership, invoices, payments, edges) ==
    LET communities == CommunitiesFrom(membership, 1, <<>>)
        all == [k \in 1..Len(communities) |->
                   CommunityCluster(membership, communities[k], invoices, payments, edges)]
    IN  SelectSeq(all, LAMBDA c : c.invoices # <<>> /\ c.payments # <<>>)

\* every list obtained by replacing each cluster that Oversized accepts by
\* one of its splits
RECURSIVE _split_cluster(_, _), SplitEach(_, _, _)
SplitEach(clusters, depth, oversized_only) ==
    IF clusters = <<>> THEN { <<>> }
    ELSE LET first == IF oversized_only /\ ClusterSize(Head(clusters)) <= max_cluster_size
                      THEN { << Head(clusters) >> }
                      ELSE _split_cluster(Head(clusters), depth)
         IN  { a \o b : a \in first, b \in SplitEach(Tail(clusters), depth, oversized_only) }

\* _split_cluster: every list of clusters the call can return
_split_cluster(cluster, depth) ==
    IF ClusterSize(cluster) <= max_cluster_size \/ depth > 3 THEN { << cluster >> }
    ELSE IF cluster.edges = <<>> THEN { << cluster >> }
    ELSE UNION {
            IF Cardinality(Range(membership)) <= 1 THEN { << cluster >> }
            ELSE { IF final_clusters # <<>> THEN final_clusters ELSE << cluster >> :
                     final_clusters \in
                        SplitEach(_partition_to_clusters(membership, cluster.invoices,
                                                         cluster.payments, cluster.edges),
                                  depth + 1, TRUE) } :
            membership \in Memberships(ClusterSize(cluster)) }

\* _split_large_clusters
_split_large_clusters(clusters) == SplitEach(clusters, 0, TRUE)

\* "Identify orphans (nodes not in any cluster)"
WithOrphans(clusters, invoices, payments) ==
    LET clustered == UNION { Range(IdsOf(clusters[c].invoices))
                               \cup Range(IdsOf(clusters[c].payments)) :
                             c \in DOMAIN clusters }
    IN  ClusteringResult(clusters,
            SelectSeq(invoices, LAMBDA inv : inv.id \notin clustered),
            SelectSeq(payments, LAMBDA pay : pay.id \notin clustered))

\* the runs of LeidenClusterEngine.process for the edges the affinity graph
\* carries: the clusters of the first partition and the ClusteringResult
LeidenRuns(invoices, payments, edges) ==
    IF invoices = <<>> \/ payments = <<>>
    THEN { [partitioned |-> <<>>,
            result |-> ClusteringResult(<<>>, invoices, payments)] }
    ELSE UNION {
            LET partitioned == _partition_to_clusters(membership, invoices, payments, edges)
            IN  { [partitioned |-> partitioned,
                   result |-> WithOrphans(clusters, invoices, payments)] :
                  clusters \in _split_large_clusters(partitioned) } :
            membership \in Memberships(Len(invoices) + Len(payments)) }

\* LeidenClusterEngine.process: every ClusteringResult the call can return
cluster_process(invoices, payments, edges) ==
    { run.result : run \in LeidenRuns(invoices, payments, edges) }

\* the transactions SafePeel leaves: ni invoices and np payments
LeidenSides == { s \in (0..MaxNodes) \X (0..MaxNodes) : s[1] + s[2] <= MaxNodes }

\* _build_affinity_graph: the invoice/payment pairs whose weight reaches
\* min_edge_weight, in the order of the two loops
AffinityEdges(ni, np, pairs) ==
    LET all == [k \in 1..(ni * np) |-> << ((k - 1) \div np) + 1, ((k - 1) % np) + 1 >>]
        kept == SelectSeq(all, LAMBDA p : p \in pairs)
    IN  [k \in 1..Len(kept) |->
            TransactionMatch(InvoiceId(kept[k][1]), PaymentId(kept[k][2]), 5000)]

LeidenInputs ==
    UNION { { [invoices |-> [i \in 1..s[1] |->
                                Transaction(InvoiceId(i), "", "", 1000, Day(0), "", "")],
               payments |-> [j \in 1..s[2] |->
                                Transaction(PaymentId(j), "", "", 1000, Day(0), "", "")],
               edges |-> AffinityEdges(s[1], s[2], pairs)] :
              pairs \in SUBSET ((1..s[1]) \X (1..s[2])) } : s \in LeidenSides }

NoLeidenInput == [invoices |-> <<>>, payments |-> <<>>, edges |-> <<>>]

LeidenOff ==
    /\ leiden_pc = "off"
    /\ leiden_in = NoLeidenInput
    /\ leiden_partitioned = <<>>
    /\ leiden_out = NoClusteringResult

LeidenInit ==
    /\ leiden_pc = "idle"
    /\ leiden_in \in LeidenInputs
    /\ leiden_partitioned = <<>>
    /\ leiden_out = NoClusteringResult

\* LeidenClusterEngine.process on the remaining transactions
ClusterProcess ==
    /\ leiden_pc = "idle"
    /\ \E run \in LeidenRuns(leiden_in.invoices, leiden_in.payments, leiden_in.edges) :
          /\ leiden_partitioned' = run.partitioned
          /\ leiden_out' = run.result
    /\ leiden_pc' = "clustered"
    /\ UNCHANGED leiden_in
    /\ UNCHANGED <<bankVars, peelVars, solverVars, pipeVars>>

LeidenNext == ClusterProcess

-----------------------------------------------------------------------------
(* Cluster: properties                                                     *)

\* the number of retained clusters and orphan lists that hold the id
PlacesOf(id, out, side) ==
    LET txns(c) == IF side = "invoices" THEN c.invoices ELSE c.payments
        orphans == IF side = "invoices" THEN out.orphan_invoices ELSE out.orphan_payments
    IN  SeqSum([c \in DOMAIN out.clusters |->
            Cardinality({ i \in DOMAIN txns(out.clusters[c]) :
                            txns(out.clusters[c])[i].id = id })])
        + Cardinality({ i \in DOMAIN orphans : orphans[i].id = id })

\* C23: after the Cluster stage every residual invoice and payment is in
\* exactly one retained cluster or in the orphan lists, and every retained
\* cluster, also one produced by splitting an oversized cluster, holds at
\* least one invoice and at least one payment.
C23_PartitionOfResiduals ==
    leiden_pc = "clustered" =>
        /\ \A i \in DOMAIN leiden_in.invoices :
              PlacesOf(leiden_in.invoices[i].id, leiden_out, "invoices") = 1
        /\ \A j \in DOMAIN leiden_in.payments :
              PlacesOf(leiden_in.payments[j].id, leiden_out, "payments") = 1
        /\ \A c \in DOMAIN leiden_out.clusters :
              /\ leiden_out.clusters[c].invoices # <<>>
              /\ leiden_out.clusters[c].payments # <<>>

\* an oversized cluster of the first partition was split: a part of it is
\* retained and the rest of it went to the orphan lists
C23_Witness ==
    /\ leiden_pc = "clustered"
    /\ \E c \in DOMAIN leiden_partitioned :
          /\ ClusterSize(leiden_partitioned[c]) > max_cluster_size
          /\ leiden_partitioned[c] \notin Range(leiden_out.clusters)
    /\ leiden_out.clusters # <<>>
    /\ leiden_out.orphan_invoices \o leiden_out.orphan_payments # <<>>

-----------------------------------------------------------------------------
(* SafePeel: properties                                                    *)

\* positions of the payments not in `used` that carry key k as external_id
\* or reference (compared lower-cased, as the index does)
Carriers(payments, k, used) ==
    { j \in DOMAIN payments :
        /\ payments[j].id \notin used
        /\ \/ payments[j].external_id # "" /\ lower(payments[j].external_id) = k
           \/ payments[j].reference # "" /\ lower(payments[j].reference) = k }

\* payments consumed by the pairs emitted before the n-th one
UsedBefore(pairs, n) == { pairs[m].payment_ids[1] : m \in 1..(n - 1) }

InvoiceById(id) ==
    CHOOSE inv \in Range(peel_in.invoices) : inv.id = id

PaymentPos(id) ==
    CHOOSE j \in DOMAIN peel_in.payments : peel_in.payments[j].id = id

\* C10: a reference match (gap 0, confidence HIGH) is emitted for an invoice
\* only if one of the invoice's keys is carried by exactly one still-unused
\* payment, the matched one, and the amounts are equal; a key carried by two
\* or more unused payments yields no reference match.
C10_ReferenceMatchUnique ==
    peel_pc = "peeled" =>
        \A n \in DOMAIN peel_out.matched_pairs :
            LET pair == peel_out.matched_pairs[n]
                inv == InvoiceById(pair.invoice_ids[1])
                pos == PaymentPos(pair.payment_ids[1])
                used == UsedBefore(peel_out.matched_pairs, n)
            IN  pair.confidence = "HIGH" =>
                    /\ pair.gap_cents = 0
                    /\ peel_in.payments[pos].amount_cents = inv.amount_cents
                    /\ \E k \in Range(refs_to_try(inv)) :
                          Carriers(peel_in.payments, k, used) = {pos}
                    /\ \A k \in Range(refs_to_try(inv)) :
                          Cardinality(Carriers(peel_in.payments, k, used)) <= 1

\* the pairs SafePeel emitted without a reference match
UniqueAmountPairs ==
    { n \in DOMAIN peel_out.matched_pairs :
        peel_out.matched_pairs[n].confidence = "MEDIUM" }

\* text similarity between the invoice and the payment of the n-th pair
PairSimilarity(n) ==
    _calculate_text_similarity(
        InvoiceById(peel_out.matched_pairs[n].invoice_ids[1]),
        peel_in.payments[PaymentPos(peel_out.matched_pairs[n].payment_ids[1])])

\* invoices no payment of equal amount reaches the text threshold for, and
\* that no reference pair holds: they stay in remaining_invoices
LeftInResiduals ==
    \A i \in DOMAIN peel_in.invoices :
        LET inv == peel_in.invoices[i]
        IN  (/\ \A n \in DOMAIN peel_out.matched_pairs :
                    peel_out.matched_pairs[n].confidence = "HIGH"
                        => peel_out.matched_pairs[n].invoice_ids[1] # inv.id
             /\ \A j \in DOMAIN peel_in.payments :
                    peel_in.payments[j].amount_cents = inv.amount_cents
                        => SimilarityBelow(
                              _calculate_text_similarity(inv, peel_in.payments[j]),
                              text_threshold))
            => \E k \in DOMAIN peel_out.remaining_invoices :
                  peel_out.remaining_invoices[k].id = inv.id

\* C11 (as stated): every pair emitted without a reference match has a text
\* similarity that exceeds text_similarity_threshold, and a unique-amount
\* candidate below the threshold or without comparable text stays in the
\* residuals.
C11_TextSimilarityExceeds ==
    peel_pc = "peeled" =>
        /\ \A n \in UniqueAmountPairs :
              PairSimilarity(n).num > text_threshold * PairSimilarity(n).den
        /\ LeftInResiduals

\* C11 (amended): every pair emitted without a reference match has a text
\* similarity of at least text_similarity_threshold, which is the score the
\* pair records; a unique-amount candidate below the threshold or without
\* comparable text stays in the residuals.
C11_TextSimilarityAtLeast ==
    peel_pc = "peeled" =>
        /\ \A n \in UniqueAmountPairs :
              /\ PairSimilarity(n).num >= text_threshold * PairSimilarity(n).den
              /\ peel_out.matched_pairs[n].semantic_score = PairSimilarity(n)
        /\ LeftInResiduals

\* a pair committed at exactly the threshold, and an invoice whose only
\* candidates fall below it
C11_Witness ==
    /\ peel_pc = "peeled"
    /\ \E n \in UniqueAmountPairs :
          PairSimilarity(n).num = text_threshold * PairSimilarity(n).den

\* dated within [T - uniqueness_window, T + buffer_days + uniqueness_window]
InWindow(txn, reference_date) ==
    /\ txn.transaction_date.known
    /\ reference_date - uniqueness_window <= txn.transaction_date.day
    /\ txn.transaction_date.day <= reference_date + buffer_days + uniqueness_window

\* positions of the in-window transactions of a list that have the amount
InWindowWithAmount(transactions, reference_date, amount) ==
    { k \in DOMAIN transactions :
        /\ InWindow(transactions[k], reference_date)
        /\ transactions[k].amount_cents = amount }

\* C12: a unique-amount match is committed only when exactly one in-window
\* invoice and exactly one in-window payment have the amount, and the
\* committed payment is that in-window payment.
C12_UniqueInWindow ==
    peel_pc = "peeled" =>
        \A n \in UniqueAmountPairs :
            LET pair == peel_out.matched_pairs[n]
                amount == pair.total_invoice_cents
                t == peel_in.reference_date
            IN  /\ Cardinality(InWindowWithAmount(peel_in.invoices, t, amount)) = 1
                /\ InWindowWithAmount(peel_in.payments, t, amount)
                      = { PaymentPos(pair.payment_ids[1]) }

\* the amounts of the run's transactions
InputAmounts ==
    { peel_in.invoices[i].amount_cents : i \in DOMAIN peel_in.invoices }
    \cup { peel_in.payments[j].amount_cents : j \in DOMAIN peel_in.payments }

\* two or more in-window invoices share the amount with an in-window payment
GreedyTheftCase(amount) ==
    /\ Cardinality(InWindowWithAmount(peel_in.invoices, peel_in.reference_date, amount)) >= 2
    /\ InWindowWithAmount(peel_in.payments, peel_in.reference_date, amount) # {}

\* no pair of the run was committed by reference
NoReferenceMatch ==
    \A n \in DOMAIN peel_out.matched_pairs :
        peel_out.matched_pairs[n].confidence # "HIGH"

\* C13: when two or more in-window invoices share an amount with an in-window
\* payment and no references match, no MatchedPair is emitted for that amount
\* and those invoices and payments all stay in the residuals.
C13_GreedyTheftRejected ==
    peel_pc = "peeled" =>
        \A amount \in InputAmounts :
            (GreedyTheftCase(amount) /\ NoReferenceMatch) =>
                /\ \A n \in DOMAIN peel_out.matched_pairs :
                      /\ peel_out.matched_pairs[n].total_invoice_cents # amount
                      /\ peel_out.matched_pairs[n].total_payment_cents # amount
                /\ \A i \in InWindowWithAmount(peel_in.invoices, peel_in.reference_date, amount) :
                      \E k \in DOMAIN peel_out.remaining_invoices :
                          peel_out.remaining_invoices[k] = peel_in.invoices[i]
                /\ \A j \in InWindowWithAmount(peel_in.payments, peel_in.reference_date, amount) :
                      \E k \in DOMAIN peel_out.remaining_payments :
                          peel_out.remaining_payments[k] = peel_in.payments[j]

\* two in-window invoices and one in-window payment of one amount, whose texts
\* agree, none carrying a reference: nothing is committed
C13_Witness ==
    /\ peel_pc = "peeled"
    /\ NoReferenceMatch
    /\ \E amount \in InputAmounts :
          /\ GreedyTheftCase(amount)
          /\ \E i \in InWindowWithAmount(peel_in.invoices, peel_in.reference_date, amount),
                j \in InWindowWithAmount(peel_in.payments, peel_in.reference_date, amount) :
                ~SimilarityBelow(
                    _calculate_text_similarity(peel_in.invoices[i], peel_in.payments[j]),
                    text_threshold)
    /\ Len(peel_out.remaining_invoices) = 2
    /\ Len(peel_out.remaining_payments) = 1

\* the known dates of the invoice and the payment of the n-th pair
PairDates(n) ==
    LET invoice == InvoiceById(peel_out.matched_pairs[n].invoice_ids[1])
        payment == peel_in.payments[PaymentPos(peel_out.matched_pairs[n].payment_ids[1])]
    IN  { txn.transaction_date.day :
            txn \in { x \in {invoice, payment} : x.transaction_date.known } }

\* the commit level of a pair whose known dates are dates, at reference date t
CommitLevel(dates, t) ==
    IF dates = {} THEN "SOFT"
    ELSE IF \E d \in dates : d > t THEN "SHADOW"
    ELSE IF \E d \in dates : t + hard_threshold < d THEN "SOFT"
    ELSE "HARD"

\* C14: every SafePeel pair is SHADOW if the latest known date d of its
\* invoice and payment is after T, SOFT if T + hard_threshold < d <= T, HARD
\* if d <= T + hard_threshold, and SOFT if neither date is known; both
\* transactions carry the pair's level.
C14_CommitLevelAssignment ==
    peel_pc = "peeled" =>
        \A n \in DOMAIN peel_out.matched_pairs :
            LET pair == peel_out.matched_pairs[n]
            IN  /\ pair.commit_status = CommitLevel(PairDates(n), peel_in.reference_date)
                /\ txn_status[pair.invoice_ids[1]].commit_status = pair.commit_status
                /\ txn_status[pair.payment_ids[1]].commit_status = pair.commit_status

\* one run committing a HARD pair and a pair without any known date
C14_Witness ==
    /\ peel_pc = "peeled"
    /\ \E n \in DOMAIN peel_out.matched_pairs :
          /\ PairDates(n) # {}
          /\ peel_out.matched_pairs[n].commit_status = "HARD"
    /\ \E n \in DOMAIN peel_out.matched_pairs :
          /\ PairDates(n) = {}
          /\ peel_out.matched_pairs[n].commit_status = "SOFT"

\* the transaction of the run that carries the id
TxnById(id) ==
    LET all == peel_in.invoices \o peel_in.payments
    IN  all[CHOOSE k \in DOMAIN all : all[k].id = id]

\* the level a promote call with reference date t gives a transaction
LevelAfterPromote(txn, level, t) ==
    CASE level = "SHADOW" /\ txn.transaction_date.known /\ txn.transaction_date.day <= t
            -> "SOFT"
      [] level = "SOFT" /\ txn.transaction_date.known
                        /\ txn.transaction_date.day <= t + hard_threshold
            -> "HARD"
      [] OTHER -> level

\* one promote_commits call: the transactions passed move one level along
\* SHADOW -> SOFT -> HARD when their date allows it, everything else is left
\* alone, and the audit entries name exactly the transactions that moved
PromoteStepOk ==
    \E t \in NewReferenceDates, passed \in PromoteLists :
        LET passed_ids == { passed[k].id : k \in DOMAIN passed }
            moved == { id \in DOMAIN txn_status :
                         txn_status'[id].commit_status # txn_status[id].commit_status }
        IN  /\ DOMAIN txn_status' = DOMAIN txn_status
            /\ \A id \in DOMAIN txn_status :
                  /\ txn_status'[id].matched_to = txn_status[id].matched_to
                  /\ txn_status'[id].commit_status =
                        IF id \in passed_ids
                        THEN LevelAfterPromote(TxnById(id), txn_status[id].commit_status, t)
                        ELSE txn_status[id].commit_status
                  /\ (txn_status[id].commit_status = "PENDING"
                        \/ ~TxnById(id).transaction_date.known) => id \notin moved
            /\ \A k \in DOMAIN promote_audit' :
                  /\ promote_audit'[k].action = "MATCH_PROMOTED"
                  /\ Len(promote_audit'[k].transaction_ids) = 1
            /\ \A id \in DOMAIN txn_status :
                  Cardinality({ k \in DOMAIN promote_audit' :
                                  promote_audit'[k].transaction_ids = << id >> })
                      = IF id \in moved THEN 1 ELSE 0

\* C15: over any sequence of promote_commits calls, a call only advances a
\* transaction along SHADOW -> SOFT (date <= T') -> HARD (date <= T' +
\* hard_threshold), never moves a level backwards, leaves PENDING and undated
\* transactions unchanged, and returns exactly one MATCH_PROMOTED entry per
\* transaction whose level changed and none otherwise.
C15_PromoteOnlyAdvances ==
    [][promote_calls' # promote_calls => PromoteStepOk]_vars

\* after two promote calls: a transaction promoted to HARD by the last call,
\* next to an undated committed transaction that kept its level
C15_Witness ==
    /\ promote_calls = 2
    /\ \E k \in DOMAIN promote_audit :
          txn_status[promote_audit[k].transaction_ids[1]].commit_status = "HARD"
    /\ \E id \in DOMAIN txn_status :
          /\ ~TxnById(id).transaction_date.known
          /\ txn_status[id].commit_status = "SOFT"

\* C16: once a transaction's commit status is HARD, no later promote_commits
\* call and no later process run changes its commit status or the transaction
\* it is matched to.
C16_HardIsFinal ==
    [][\A id \in DOMAIN txn_status :
          txn_status[id].commit_status = "HARD" => txn_status'[id] = txn_status[id]]_vars

\* the number of emitted pairs and of remaining entries that hold the id
PairsHolding(id, side) ==
    Cardinality({ n \in DOMAIN peel_out.matched_pairs :
                    id \in Range(IF side = "invoices"
                                 THEN peel_out.matched_pairs[n].invoice_ids
                                 ELSE peel_out.matched_pairs[n].payment_ids) })

RemainingHolding(id, side) ==
    LET remaining == IF side = "invoices" THEN peel_out.remaining_invoices
                     ELSE peel_out.remaining_payments
    IN  Cardinality({ k \in DOMAIN remaining : remaining[k].id = id })

\* C29: after process every input invoice is either in exactly one emitted
\* pair or once in remaining_invoices, never both, and every input payment
\* likewise; each pair has one invoice and one payment of equal amounts and
\* gap 0, and the invoice, the payment and the pair carry the same commit
\* status, the two transactions' matched_to naming each other.
C29_PeelPartition ==
    peel_pc = "peeled" =>
        /\ \A i \in DOMAIN peel_in.invoices :
              PairsHolding(peel_in.invoices[i].id, "invoices")
                 + RemainingHolding(peel_in.invoices[i].id, "invoices") = 1
        /\ \A j \in DOMAIN peel_in.payments :
              PairsHolding(peel_in.payments[j].id, "payments")
                 + RemainingHolding(peel_in.payments[j].id, "payments") = 1
        /\ \A n \in DOMAIN peel_out.matched_pairs :
              LET pair == peel_out.matched_pairs[n]
              IN  /\ Len(pair.invoice_ids) = 1
                  /\ Len(pair.payment_ids) = 1
                  /\ \E i \in DOMAIN peel_in.invoices, j \in DOMAIN peel_in.payments :
                        /\ peel_in.invoices[i].id = pair.invoice_ids[1]
                        /\ peel_in.payments[j].id = pair.payment_ids[1]
                        /\ peel_in.invoices[i].amount_cents = peel_in.payments[j].amount_cents
                        /\ pair.total_invoice_cents = peel_in.invoices[i].amount_cents
                        /\ pair.total_payment_cents = peel_in.payments[j].amount_cents
                  /\ pair.gap_cents = 0
                  /\ pair.commit_status # "PENDING"
                  /\ txn_status[pair.invoice_ids[1]]
                        = [commit_status |-> pair.commit_status,
                           matched_to |-> pair.payment_ids[1]]
                  /\ txn_status[pair.payment_ids[1]]
                        = [commit_status |-> pair.commit_status,
                           matched_to |-> pair.invoice_ids[1]]

\* a run that emitted a pair and left an invoice and a payment unmatched
C29_Witness ==
    /\ peel_pc = "peeled"
    /\ Len(peel_out.matched_pairs) = 1
    /\ peel_out.remaining_invoices # <<>>
    /\ peel_out.remaining_payments # <<>>

-----------------------------------------------------------------------------
(* LexSolver: properties                                                   *)

PairGapIsDifference(pair) ==
    pair.total_invoice_cents - pair.total_payment_cents = pair.gap_cents

\* C2: every MatchedPair emitted by SafePeel or by LexSolver satisfies
\* total_invoice_cents - total_payment_cents = gap_cents.
C2_PairGapIsDifference ==
    /\ peel_pc = "peeled" =>
          \A n \in DOMAIN peel_out.matched_pairs :
              PairGapIsDifference(peel_out.matched_pairs[n])
    /\ solver_pc = "solved" =>
          \A n \in DOMAIN solver_result.matched_pairs :
              PairGapIsDifference(solver_result.matched_pairs[n])

\* C3: every PartialMatch emitted by LexSolver has
\* 0 < remainder_cents < invoice_amount_cents and
\* paid_amount_cents + remainder_cents = invoice_amount_cents.
C3_PartialRemainderProper ==
    solver_pc = "solved" =>
        \A n \in DOMAIN solver_result.partial_matches :
            LET partial == solver_result.partial_matches[n]
            IN  /\ 0 < partial.remainder_cents
                /\ partial.remainder_cents < partial.invoice_amount_cents
                /\ partial.paid_amount_cents + partial.remainder_cents
                      = partial.invoice_amount_cents

\* sum of the amounts of the cluster's payments listed in payment_ids
PaymentTotal(cluster, payment_ids) ==
    SeqSum([k \in 1..Len(payment_ids) |->
        cluster.payments[PayPos(cluster, payment_ids[k])].amount_cents])

\* C4: for every PartialMatch the amounts of the payments listed in
\* payment_ids sum to paid_amount_cents.
C4_PartialPaymentTotal ==
    solver_pc = "solved" =>
        \A n \in DOMAIN solver_result.partial_matches :
            LET partial == solver_result.partial_matches[n]
            IN  PaymentTotal(solver_cluster, partial.payment_ids)
                    = partial.paid_amount_cents


\* the results of solve_cluster when each of the three phases ends Optimal
OptimalRun(cluster) ==
    LET max_delta == calculate_allowed_delta(
                        AmountOf(cluster.payments, DOMAIN cluster.payments))
        solved1 == _solve_phase1(cluster, max_delta, "Optimal")
    IN  UNION { AfterPhase1(cluster, max_delta,
                    { q \in solved1 : <<q.delta, q.gamma>> = k },
                    k[1], k[2], "Optimal", "Optimal") :
                k \in { <<q.delta, q.gamma>> : q \in solved1 } }

\* every invoice has a candidate edge to a distinct payment of its amount
IsBalanced(cluster) ==
    /\ cluster.invoices # <<>>
    /\ \E f \in [DOMAIN cluster.invoices -> DOMAIN cluster.payments] :
          /\ \A i1, i2 \in DOMAIN cluster.invoices : i1 # i2 => f[i1] # f[i2]
          /\ \A i \in DOMAIN cluster.invoices :
                /\ cluster.payments[f[i]].amount_cents = cluster.invoices[i].amount_cents
                /\ \E e \in DOMAIN cluster.edges :
                      /\ cluster.edges[e].invoice_id = cluster.invoices[i].id
                      /\ cluster.edges[e].payment_id = cluster.payments[f[i]].id

\* C17: for a cluster in which every invoice has a candidate edge to a
\* distinct payment of identical amount, solve_cluster (every phase Optimal)
\* reports delta 0, emits one MatchedPair per invoice and sets needs_rescue
\* to false.
C17_BalancedCluster ==
    (/\ solver_pc = "solved"
     /\ IsBalanced(solver_cluster)
     /\ solver_result \in OptimalRun(solver_cluster))
        => /\ solver_result.solution.found
           /\ solver_result.solution.delta_cents = 0
           /\ Len(solver_result.matched_pairs) = Len(solver_cluster.invoices)
           /\ ~solver_result.needs_rescue


\* the invoices of the cluster that carry an edge to the payment
EdgeInvoices(cluster, pay_id) ==
    { i \in DOMAIN cluster.invoices :
        \E e \in DOMAIN cluster.edges :
            /\ cluster.edges[e].invoice_id = cluster.invoices[i].id
            /\ cluster.edges[e].payment_id = pay_id }

\* invoices with an edge to the payment that balance it alone
SingleBalancers(cluster, j) ==
    { i \in EdgeInvoices(cluster, cluster.payments[j].id) :
        cluster.invoices[i].amount_cents = cluster.payments[j].amount_cents }

\* the payment is balanced exactly by one invoice, and also by a group of
\* smaller invoices, all of them with an edge to it
ParsimonyCase(cluster, j) ==
    /\ SingleBalancers(cluster, j) # {}
    /\ \E group \in SUBSET EdgeInvoices(cluster, cluster.payments[j].id) :
          /\ Cardinality(group) >= 2
          /\ AmountOf(cluster.invoices, group) = cluster.payments[j].amount_cents

\* the invoices a result matches to the payment, fully or partially
MatchedInvoicesOf(res, pay_id) ==
    { res.matched_pairs[k].invoice_ids[1] :
        k \in { k \in DOMAIN res.matched_pairs :
                  pay_id \in Range(res.matched_pairs[k].payment_ids) } }
    \cup
    { res.partial_matches[k].invoice_id :
        k \in { k \in DOMAIN res.partial_matches :
                  pay_id \in Range(res.partial_matches[k].payment_ids) } }

PaidTooEarly(cluster, inv_id, pay_id) ==
    LET inv == cluster.invoices[InvPos(cluster, inv_id)]
        pay == cluster.payments[PayPos(cluster, pay_id)]
    IN  /\ inv.transaction_date.known
        /\ pay.transaction_date.known
        /\ pay.transaction_date.day + causality_buffer < inv.transaction_date.day

\* C19: no MatchedPair or PartialMatch of solve_cluster, whatever the phase
\* or fallback it comes from, joins an invoice with a payment dated more than
\* causality_buffer days before it; a cluster made of one such pair has both
\* ids reported unmatched.
C19_Causality ==
    solver_pc = "solved" =>
        /\ \A k \in DOMAIN solver_result.matched_pairs :
              \A inv_id \in Range(solver_result.matched_pairs[k].invoice_ids),
                 pay_id \in Range(solver_result.matched_pairs[k].payment_ids) :
                    ~PaidTooEarly(solver_cluster, inv_id, pay_id)
        /\ \A k \in DOMAIN solver_result.partial_matches :
              \A pay_id \in Range(solver_result.partial_matches[k].payment_ids) :
                    ~PaidTooEarly(solver_cluster,
                                  solver_result.partial_matches[k].invoice_id, pay_id)
        /\ (/\ Len(solver_cluster.invoices) = 1
            /\ Len(solver_cluster.payments) = 1
            /\ PaidTooEarly(solver_cluster, solver_cluster.invoices[1].id,
                            solver_cluster.payments[1].id))
              => /\ solver_result.unmatched_invoices = << solver_cluster.invoices[1].id >>
                 /\ solver_result.unmatched_payments = << solver_cluster.payments[1].id >>

\* an invoice with edges to a payment made too early and to one that is not:
\* the solve found a solution and matched the invoice to the second
C19_Witness ==
    /\ solver_pc = "solved"
    /\ solver_result.solution.found
    /\ \E e \in DOMAIN solver_cluster.edges :
          PaidTooEarly(solver_cluster, solver_cluster.edges[e].invoice_id,
                       solver_cluster.edges[e].payment_id)
    /\ solver_result.matched_pairs # <<>>


SemanticAverageBelow(solution) ==
    solution.semantic_score
        < rescue_semantic_threshold * Max2(Len(solution.matches), 1)

\* C21: when solve_cluster returns a solution, it sets needs_rescue exactly
\* when the solution has delta > 0, remainders that sum to 0 and an average
\* semantic score per match below rescue_semantic_threshold.
C21_NeedsRescueIff ==
    (solver_pc = "solved" /\ solver_result.solution.found) =>
        (solver_result.needs_rescue <=>
            /\ solver_result.solution.delta_cents > 0
            /\ SeqSum(solver_result.solution.remainders) = 0
            /\ SemanticAverageBelow(solver_result.solution))

\* the phase-2 results phase 3 starts from when the first two phases end
\* with st1 and st2: those of phase 2, or those of phase 1 in their place
Phase2Substituted(cluster, st1, st2) ==
    LET max_delta == calculate_allowed_delta(
                        AmountOf(cluster.payments, DOMAIN cluster.payments))
        solved1 == _solve_phase1(cluster, max_delta, st1)
        fixed == { << q.delta, q.gamma >> : q \in solved1 }
    IN  IF st2 = "Undefined" THEN solved1
        ELSE UNION { _solve_phase2(cluster, max_delta, k[1], k[2], st2) : k \in fixed }

\* the matches are the cluster's edges between selected invoices and
\* selected payments, one per invoice
MatchesAlongSelectedEdges(cluster, solution) ==
    LET selected(e) == /\ e.invoice_id \in solution.selected_invoices
                       /\ e.payment_id \in solution.selected_payments
    IN  /\ \A m \in DOMAIN solution.matches :
              \E e \in DOMAIN cluster.edges :
                 /\ selected(cluster.edges[e])
                 /\ cluster.edges[e].invoice_id = solution.matches[m].invoice_id
                 /\ cluster.edges[e].payment_id = solution.matches[m].payment_id
        /\ \A m, n \in DOMAIN solution.matches :
              solution.matches[m].invoice_id = solution.matches[n].invoice_id => m = n
        /\ \A e \in DOMAIN cluster.edges :
              selected(cluster.edges[e]) =>
                 \E m \in DOMAIN solution.matches :
                    solution.matches[m].invoice_id = cluster.edges[e].invoice_id

-----------------------------------------------------------------------------
(* Orchestrator: properties                                                *)

\* the (invoice ids, payment ids) of the matched pairs and partial matches
MatchEntries(res) ==
    [k \in DOMAIN res.matched_pairs |->
        [invoice_ids |-> Range(res.matched_pairs[k].invoice_ids),
         payment_ids |-> Range(res.matched_pairs[k].payment_ids)]]
    \o
    [k \in DOMAIN res.partial_matches |->
        [invoice_ids |-> { res.partial_matches[k].invoice_id },
         payment_ids |-> Range(res.partial_matches[k].payment_ids)]]

\* C1: in the final ReconciliationResult, after the SafePeel, LexSolver and
\* RescueLoop results have been aggregated, no invoice id and no payment id
\* appears in more than one MatchedPair/PartialMatch.
C1_NoIdInTwoMatches ==
    pipe_pc = "completed" =>
        LET entries == MatchEntries(recon_result)
        IN  \A a, b \in DOMAIN entries :
                a # b => /\ entries[a].invoice_ids \cap entries[b].invoice_ids = {}
                         /\ entries[a].payment_ids \cap entries[b].payment_ids = {}

\* the cluster ids under which _attempt_rescue re-solves a failed result
ReSolveIds(result) ==
    { result.cluster_id \o "_aug" }
    \cup { result.cluster_id \o "+" \o clustering_result.clusters[c].id :
             c \in DOMAIN clustering_result.clusters }

\* `returned` is the failed result accepted as it is, or a re-solved result
\* that no longer needs rescue
ReturnedFor(result, returned) ==
    \/ returned = result
    \/ /\ returned.cluster_id \in ReSolveIds(result)
       /\ ~returned.needs_rescue

\* the failed results from the k-th on are accounted for, one outcome each
\* and in order, by solver_results from s on and manual_review from m on
RECURSIVE OneOutcomeEach(_, _, _, _)
OneOutcomeEach(returned, k, s, m) ==
    IF k > Len(orch_failed_results)
    THEN s > Len(returned.solver_results) /\ m > Len(returned.manual_review)
    ELSE LET result == orch_failed_results[k]
             found == ClusterMapGet(clustering_result.clusters, result.cluster_id)
         IN  \/ /\ s <= Len(returned.solver_results)
                /\ ReturnedFor(result, returned.solver_results[s])
                /\ OneOutcomeEach(returned, k + 1, s + 1, m)
             \/ /\ m <= Len(returned.manual_review)
                /\ returned.manual_review[m] = AmbiguousCase(result, found)
                /\ OneOutcomeEach(returned, k + 1, s, m + 1)

\* the ids matched by the solver results the rescue loop returns
ReturnedMatchedIds(returned, side) ==
    UNION { MatchedIds(returned.solver_results[s], side) :
              s \in DOMAIN returned.solver_results }

\* C22: every solver result handed to RescueLoop.process ends in exactly one
\* outcome, an entry of solver_results (the result itself, or a re-solved
\* result with needs_rescue false) or one AmbiguousCase in manual_review; a
\* cluster that goes to manual review has its ids in the case and none of
\* its invoices or payments in a returned pair.
C22_OneOutcomePerResult ==
    pipe_pc \in {"rescued", "completed"} =>
        /\ OneOutcomeEach(rescue_result, 1, 1, 1)
        /\ \A m \in DOMAIN rescue_result.manual_review :
              /\ Range(rescue_result.manual_review[m].invoice_ids)
                    \cap ReturnedMatchedIds(rescue_result, "invoices") = {}
              /\ Range(rescue_result.manual_review[m].payment_ids)
                    \cap ReturnedMatchedIds(rescue_result, "payments") = {}

\* C24: a run that fails returns status FAILED and a non-empty errors list
\* and keeps the matched pairs, partial matches and audit entries the result
\* had when the stage raised; a run returns status COMPLETED only when no
\* stage raised, and then without errors.
C24_FailureKeepsAccumulated ==
    [][ /\ (pipe_pc # "failed" /\ pipe_pc' = "failed") =>
             /\ recon_result'.status = "FAILED"
             /\ job_status' = "FAILED"
             /\ recon_result'.errors # <<>>
             /\ recon_result'.matched_pairs = recon_result.matched_pairs
             /\ recon_result'.partial_matches = recon_result.partial_matches
             /\ recon_result'.audit_log = recon_result.audit_log
        /\ (pipe_pc' = "completed") =>
             (recon_result'.status = "COMPLETED" /\ recon_result'.errors = <<>>)
        /\ (pipe_pc' \in {"completed", "failed"} /\ recon_result'.status = "COMPLETED") =>
             pipe_pc' = "completed"
      ]_vars

\* a run that failed after pairs had been accumulated
C24_Witness ==
    /\ pipe_pc = "failed"
    /\ recon_result.status = "FAILED"
    /\ recon_result.errors # <<>>
    /\ recon_result.matched_pairs # <<>>
    /\ Len(recon_result.audit_log) > 2

\* matched pairs as two runs are compared: ids and amounts, order-insensitive
PairSet(pairs) ==
    { [invoice_ids |-> Range(pairs[k].invoice_ids),
       payment_ids |-> Range(pairs[k].payment_ids),
       total_invoice_cents |-> pairs[k].total_invoice_cents,
       total_payment_cents |-> pairs[k].total_payment_cents] : k \in DOMAIN pairs }

\* the sets of matched pairs the solving loop can add for these clusters
\* when every phase of every solve ends Optimal
RECURSIVE SolvedPairSets(_)
SolvedPairSets(clusters) ==
    IF clusters = <<>> THEN { {} }
    ELSE { PairSet(solved.matched_pairs) \cup rest :
             solved \in OptimalRun(Head(clusters)),
             rest \in SolvedPairSets(Tail(clusters)) }

\* C25: two runs of the pipeline on the same transactions end with the same
\* set of matched pairs. Checked at the Cluster stage, SafePeel being a
\* function of its arguments: whatever clusters a second run with the same
\* seeded first partition produces, its solving loop can add the pairs the
\* first run's solving loop adds.
C25_SameMatchedPairs ==
    leiden_pc = "clustered" =>
        \A run \in LeidenRuns(leiden_in.invoices, leiden_in.payments, leiden_in.edges) :
            run.partitioned = leiden_partitioned =>
                SolvedPairSets(run.result.clusters)
                    \cap SolvedPairSets(leiden_out.clusters) # {}

\* the entries of wanted occur in log in that order
RECURSIVE InOrder(_, _)
InOrder(wanted, log) ==
    IF wanted = <<>> THEN TRUE
    ELSE IF log = <<>> THEN FALSE
    ELSE IF Head(log) = Head(wanted) THEN InOrder(Tail(wanted), Tail(log))
    ELSE InOrder(wanted, Tail(log))

\* the solver result brought pairs or partial matches into the final result
BroughtPairs(result) == result.matched_pairs # <<>> \/ result.partial_matches # <<>>

\* the first-pass solves that were not handed to the rescue loop
FirstPassAccepted ==
    { clustering_result.clusters[k].id : k \in DOMAIN clustering_result.clusters }
        \ { orch_failed_results[k].cluster_id : k \in DOMAIN orch_failed_results }

\* C28: the final audit log holds, for every solve whose pairs are in the
\* final result (first pass or rescue loop), SOLVER_STARTED and
\* SOLVER_PHASE_COMPLETED of phase 1, then of phase 2, then of phase 3 of that
\* cluster, in this order; and for every solve that failed in phase 1, at
\* least its SOLVER_STARTED entry.
C28_SolveAuditTrail ==
    pipe_pc = "completed" =>
        /\ \A id \in FirstPassAccepted : InOrder(SolveAudit(id), recon_result.audit_log)
        /\ \A k \in DOMAIN rescue_result.solver_results :
              BroughtPairs(rescue_result.solver_results[k]) =>
                 InOrder(SolveAudit(rescue_result.solver_results[k].cluster_id),
                         recon_result.audit_log)
        /\ \A k \in DOMAIN orch_failed_results :
              ~orch_failed_results[k].solution.found =>
                 InOrder(<< AuditEntry("SOLVER_STARTED",
                                       orch_failed_results[k].cluster_id, 1) >>,
                         recon_result.audit_log)

\* C30: in the final result no invoice id and no payment id of a
\* manual_review case is also in a matched pair or a partial match.
C30_ManualReviewDisjoint ==
    pipe_pc = "completed" =>
        \A m \in DOMAIN recon_result.manual_review :
            /\ Range(recon_result.manual_review[m].invoice_ids)
                  \cap MatchedIds(recon_result, "invoices") = {}
            /\ Range(recon_result.manual_review[m].payment_ids)
                  \cap MatchedIds(recon_result, "payments") = {}

-----------------------------------------------------------------------------
(* Specifications: one per component, the other components at rest         *)

InitBank == BankInit /\ PeelOff /\ SolverOff /\ PipelineOff /\ LeidenOff

SpecBank == InitBank /\ [][BankNext]_vars

InitPeel == PeelInit /\ BankOff /\ SolverOff /\ PipelineOff /\ LeidenOff

SpecPeel == InitPeel /\ [][PeelNext]_vars

InitCommit == CommitInit /\ BankOff /\ SolverOff /\ PipelineOff /\ LeidenOff

SpecCommit == InitCommit /\ [][CommitNext]_vars

InitSolver == SolverInit /\ BankOff /\ PeelOff /\ PipelineOff /\ LeidenOff

SpecSolver == InitSolver /\ [][SolverNext]_vars

InitPipeline == PipelineInit /\ BankOff /\ PeelOff /\ SolverOff /\ LeidenOff

SpecPipeline == InitPipeline /\ [][PipelineNext]_vars

InitLeiden == LeidenInit /\ BankOff /\ PeelOff /\ SolverOff /\ PipelineOff

SpecLeiden == InitLeiden /\ [][LeidenNext]_vars

=============================================================================
